---- MODULE Spec2Model ----
(***************************************************************************)
(* Verification model of the evolutionary portfolio optimizers             *)
(*   backend/ga.py    run_ga     (single objective, elitist GA)            *)
(*   backend/nsga2.py run_nsga2  (NSGA-II)                                 *)
(*                                                                         *)
(* Numbers.  Weight vectors are exact rationals with a common denominator: *)
(* [n |-> <<n1,..,nk>>, d |-> d] stands for (n1/d, .., nk/d), kept in      *)
(* lowest terms so that equal vectors are equal values.  Floating point    *)
(* rounding is not modelled.                                               *)
(*                                                                         *)
(* evaluate().  The annualised metrics (log1p/expm1, percentile, bootstrap)*)
(* are transcendental functions of the return matrix; the model keeps what *)
(* the optimizers rely on: evaluate is SOME function of the weight vector, *)
(* the same for every individual evaluated together and from one          *)
(* evaluation to the next, except that the bootstrap CVaR is redrawn at    *)
(* every call when the generator inside it is unseeded.                    *)
(*                                                                         *)
(* Random draws are inputs of the actions.  A seeded run is modelled as    *)
(* two calls that advance in lockstep and read the same stream: the k-th   *)
(* draw of numpy's default_rng(seed) is a function of seed and k.          *)
(***************************************************************************)
EXTENDS Integers, Sequences, FiniteSets, TLC

\* ------------------------------------------------------------------ bounds
MaxGen == 1
MaxLen == 3
MaxVal == 2

\* ------------------------------------------------------ program constants
EliteMin == 2
EliteDiv == 10
TopK == 10
MinDays == 30
ParetoCap == 20
Pct == 100

\* sample inputs: the population sizes, the asset list, and the grids of the
\* random draws
\* rng.random() is k / DrawDen and the blend alpha is k / AlphaDen, k on the
\* grid; a component of rng.normal(0, 0.05) is z / NoiseDen, z in NoiseVals
PopSizes == {2, 3}
Tickers == <<"T1", "T2">>
NAssets == Len(Tickers)
DrawVals == {0, 1}
AlphaVals == {0, 1}
NoiseVals == {-1, 1}
DrawDen == Cardinality(DrawVals)
AlphaDen == Cardinality(AlphaVals)
NoiseDen == Cardinality(NoiseVals)

\* seed: None, or a given integer (which one does not matter to the model)
NoSeed == "None"
GivenSeed == "given"
Inf == <<1, 0>>

\* --------------------------------------------------------------- helpers
Max2(a, b) == IF a >= b THEN a ELSE b
Min2(a, b) == IF a <= b THEN a ELSE b

RECURSIVE GCD(_, _)
GCD(a, b) == IF b = 0 THEN a ELSE GCD(b, a % b)

RECURSIVE SumSeq(_)
SumSeq(s) == IF Len(s) = 0 THEN 0 ELSE Head(s) + SumSeq(Tail(s))

RECURSIVE GcdSeq(_)
GcdSeq(s) == IF Len(s) = 0 THEN 0 ELSE GCD(Head(s), GcdSeq(Tail(s)))

RECURSIVE Flatten(_)
Flatten(ss) == IF Len(ss) = 0 THEN <<>> ELSE Head(ss) \o Flatten(Tail(ss))

\* The position list a stable sort produces: Before(i, j) is the strict
\* total order "i is placed before j".
SortedIdx(n, Before(_, _)) ==
  [p \in 1 .. n |->
     CHOOSE i \in 1 .. n : Cardinality({j \in 1 .. n : Before(j, i)}) = p - 1]

\* rationals <<num, den>>, den > 0; Inf is <<1, 0>>
IsInf(x) == x[2] = 0
RatLt(x, y) == x[1] * y[2] < y[1] * x[2]
RatAdd(x, y) == <<x[1] * y[2] + y[1] * x[2], x[2] * y[2]>>
DistGt(x, y) ==
  IF IsInf(x) THEN ~IsInf(y)
  ELSE IF IsInf(y) THEN FALSE ELSE RatLt(y, x)

\* ------------------------------------------------------- weight vectors
Reduce(v) ==
  LET g == GCD(GcdSeq(v.n), v.d)
  IN  IF g <= 1 THEN v ELSE [n |-> [i \in 1 .. Len(v.n) |-> v.n[i] \div g], d |-> v.d \div g]

Uniform == [n |-> [i \in 1 .. NAssets |-> 1], d |-> NAssets]

Clip(v) == [n |-> [i \in 1 .. Len(v.n) |-> Max2(v.n[i], 0)], d |-> v.d]

\* v / v.sum()
DivBySum(v) == Reduce([n |-> v.n, d |-> SumSeq(v.n)])

\* ga.py / nsga2.py random_weights, on the raw draw rng.random(n_assets)
random_weights(raw) ==
  LET w == Clip([n |-> raw, d |-> DrawDen])
      s == SumSeq(w.n)
  IN  IF s > 0 THEN DivBySum(w) ELSE Uniform

\* child = alpha * pa + (1 - alpha) * pb, alpha = a / AlphaDen
Crossover(a, pa, pb) ==
  [n |-> [i \in 1 .. NAssets |->
            a * pa.n[i] * pb.d + (AlphaDen - a) * pb.n[i] * pa.d],
   d |-> AlphaDen * pa.d * pb.d]

\* child += rng.normal(0, 0.05, size=n_assets), z the noise numerators
AddNoise(v, z) ==
  [n |-> [i \in 1 .. NAssets |-> v.n[i] * NoiseDen + z[i] * v.d],
   d |-> v.d * NoiseDen]

\* child = clip(child, 0); s = child.sum(); uniform if s == 0 else child / s
RenormaliseNoClip(v) ==
  LET s == SumSeq(v.n)
  IN  IF s = 0 THEN Uniform ELSE [n |-> v.n, d |-> s]

Renormalise(v) ==
  LET c == Clip(v)
      s == SumSeq(c.n)
  IN  IF s = 0 THEN Uniform ELSE DivBySum(c)

\* one offspring: crossover, optional mutation, clipping, renormalisation
MakeChild(pa, pb, a, mut, z) ==
  LET c0 == Crossover(a, pa, pb)
      c1 == IF mut THEN AddNoise(c0, z) ELSE c0
  IN  Renormalise(c1)

IsSimplex(v) ==
  /\ v.d > 0
  /\ \A i \in 1 .. Len(v.n) : v.n[i] >= 0
  /\ SumSeq(v.n) = v.d

\* pesos_pct: [float(x * 100) for x in w]
PesosPct(w) == [i \in 1 .. Len(w.n) |-> <<Pct * w.n[i], w.d>>]

\* ------------------------------------------------------------- NSGA-II
\* objective pairs are <<return, risk>>
DominatesWeak(ind1, ind2) == ind1[1] >= ind2[1] /\ ind1[2] <= ind2[2]

dominates(ind1, ind2) ==
  /\ ind1[1] >= ind2[1] /\ ind1[2] <= ind2[2]
  /\ (ind1[1] > ind2[1] \/ ind1[2] < ind2[2])

\* S[i]: the indices i dominates, in increasing order
DominatedBy(pop, i) ==
  LET RECURSIVE Build(_)
      Build(j) ==
        IF j > Len(pop) THEN <<>>
        ELSE IF j # i /\ dominates(pop[i], pop[j]) THEN <<j>> \o Build(j + 1)
        ELSE Build(j + 1)
  IN  Build(1)

\* n_p[i]: how many indices dominate i (the elif branch of the double loop)
DomCountSwapped(pop, i) ==
  Cardinality({j \in 1 .. Len(pop) : j # i /\ dominates(pop[i], pop[j])})

DomCount(pop, i) ==
  Cardinality({j \in 1 .. Len(pop) :
     j # i /\ ~dominates(pop[i], pop[j]) /\ dominates(pop[j], pop[i])})

FirstFront(pop) ==
  LET RECURSIVE Build(_)
      Build(i) ==
        IF i > Len(pop) THEN <<>>
        ELSE IF DomCount(pop, i) = 0 THEN <<i>> \o Build(i + 1)
        ELSE Build(i + 1)
  IN  Build(1)

\* the same loop appending q at every decrement
PeelEager(qs, np, Q) ==
  LET RECURSIVE Go(_, _, _)
      Go(rest, n, acc) ==
        IF Len(rest) = 0 THEN [np |-> n, Q |-> acc]
        ELSE LET q == Head(rest)
                 n2 == [n EXCEPT ![q] = n[q] - 1]
             IN  Go(Tail(rest), n2, Append(acc, q))
  IN  Go(qs, np, Q)

\* the loop "for p in front[i]: for q in S[p]": decrement n_p[q] and
\* append q to Q when it reaches zero
RECURSIVE Peel(_, _, _)
Peel(qs, np, Q) ==
  IF Len(qs) = 0 THEN [np |-> np, Q |-> Q]
  ELSE LET q == Head(qs)
           np2 == [np EXCEPT ![q] = np[q] - 1]
       IN  Peel(Tail(qs), np2, IF np2[q] = 0 THEN Append(Q, q) ELSE Q)

RECURSIVE PeelFronts(_, _, _)
PeelFronts(pop, front, np) ==
  LET cur == front[Len(front)]
      r == Peel(Flatten([k \in 1 .. Len(cur) |-> DominatedBy(pop, cur[k])]), np, <<>>)
  IN  IF Len(cur) = 0 THEN front
      ELSE IF Len(r.Q) > 0 THEN PeelFronts(pop, Append(front, r.Q), r.np)
      ELSE front

fast_non_dominated_sort(pop) ==
  PeelFronts(pop, <<FirstFront(pop)>>, [i \in 1 .. Len(pop) |-> DomCount(pop, i)])

\* sorted(front, key=lambda i: population[i][obj_idx]) (stable, ascending)
SortFrontBy(front, pop, obj) ==
  LET n == Len(front)
      Before(a, b) == \/ pop[front[a]][obj] < pop[front[b]][obj]
                      \/ (pop[front[a]][obj] = pop[front[b]][obj] /\ a < b)
      p == SortedIdx(n, Before)
  IN  [k \in 1 .. n |-> front[p[k]]]

\* what "distances[j] += ..." adds at sorted position j for one objective
CrowdTerm(front, pop, obj, j) ==
  LET sf == SortFrontBy(front, pop, obj)
      n == Len(sf)
      rng == pop[sf[n]][obj] - pop[sf[1]][obj]
  IN  IF n > 2 /\ rng > 0
      THEN <<pop[sf[j + 1]][obj] - pop[sf[j - 1]][obj], rng>>
      ELSE <<0, 1>>

\* position j of the returned list: the first and the last POSITION are set
\* to inf, every other position j accumulates the gap around the member
\* that is j-th in the sorted order
crowding_distance(front, pop) ==
  LET n == Len(front)
  IN  [j \in 1 .. n |->
         IF j = 1 \/ j = n THEN Inf
         ELSE RatAdd(RatAdd(<<0, 1>>, CrowdTerm(front, pop, 1, j)),
                     CrowdTerm(front, pop, 2, j))]

\* sorted(range(len(front)), key=lambda i: distances[i], reverse=True)
SortByDistanceDesc(dist) ==
  LET Before(a, b) == DistGt(dist[a], dist[b]) \/ (~DistGt(dist[b], dist[a]) /\ a < b)
  IN  SortedIdx(Len(dist), Before)

\* parent = new_pop_weights[idx1] if idx1 < idx2 else new_pop_weights[idx2]
TournamentPick(idx1, idx2) == IF idx1 < idx2 THEN idx1 ELSE idx2


\* environmental selection of run_nsga2: the while loop over front_idx.
\* idx: the indices copied, in the order they are appended; cut: whether
\* the overflow branch was entered.
RECURSIVE SelectFronts(_, _, _, _, _)
SelectFronts(frs, po, cap, front_idx, acc) ==
  IF ~(Len(acc.idx) < cap /\ front_idx <= Len(frs)) THEN acc
  ELSE LET current_front == frs[front_idx]
       IN  IF Len(acc.idx) + Len(current_front) <= cap
           THEN SelectFronts(frs, po, cap, front_idx + 1,
                             [idx |-> acc.idx \o current_front, cut |-> acc.cut])
           ELSE LET remaining == cap - Len(acc.idx)
                    dist == crowding_distance(current_front, po)
                    sorted_indices == SortByDistanceDesc(dist)
                IN  [idx |-> acc.idx \o [k \in 1 .. remaining |-> current_front[sorted_indices[k]]],
                     cut |-> TRUE]

\* the same loop filled up to cap - 1
EnvSelectShort(frs, po, cap) == SelectFronts(frs, po, cap - 1, 1, [idx |-> <<>>, cut |-> FALSE])

EnvSelect(frs, po, cap) == SelectFronts(frs, po, cap, 1, [idx |-> <<>>, cut |-> FALSE])

\* ------------------------------------------------------------ the state
VARIABLES
  return_matrix, cov_daily,
  engine, populacao, geracoes, seed, use_annual_cvar_bootstrap, risco_peso, var_peso,
  pc, gen,
  evaluated, new_pop,
  population_weights, population_objectives, selected, truncated,
  history, results,
  objs, fronts, front, distances, pick

params == <<return_matrix, cov_daily, engine, populacao, geracoes, seed, use_annual_cvar_bootstrap, risco_peso, var_peso>>
gaVars == <<evaluated, new_pop>>
nsVars == <<population_weights, population_objectives, selected, truncated>>
fnVars == <<objs, fronts, front, distances, pick>>
vars == <<params, pc, gen, gaVars, nsVars, history, results, fnVars>>

\* the calls that run in lockstep: one unseeded call, or two calls with the
\* same seed reading the same stream
Calls == IF seed = NoSeed THEN {1} ELSE {1, 2}

RetVals == {0, 1}
CvarVals == {0, 1}
VarVals == {0, 1}
RawDraws == [1 .. NAssets -> DrawVals]
NoiseDraws == [1 .. NAssets -> NoiseVals]
NoNoise == [i \in 1 .. NAssets |-> 0]
\* the sampled settings of seed, use_annual_cvar_bootstrap, risco_peso and
\* var_peso: the defaults, a seeded call, and the sqrt(252) CVaR
ParamSamples ==
  {[seed |-> NoSeed, boot |-> TRUE, risco_peso |-> 1, var_peso |-> 0],
   [seed |-> GivenSeed, boot |-> TRUE, risco_peso |-> 2, var_peso |-> 1],
   [seed |-> NoSeed, boot |-> FALSE, risco_peso |-> 1, var_peso |-> 1]}

\* ----------------------------------------------------------- evaluate
\* compute_annual_cvar_bootstrap(..., seed=seed) builds default_rng(seed):
\* a function of its input unless the seed is None
BootstrapUnseeded == ~use_annual_cvar_bootstrap

CvarDeterministic == ~use_annual_cvar_bootstrap \/ seed # NoSeed

\* the sample of metric triples evaluate can return: every (ret, cvar) pair
\* of the grid, with a variance that varies with them
SampleVariance(ret, cvar) == (ret + cvar) % Cardinality(VarVals)

MemoVals ==
  {t \in [ret : RetVals, cvar : CvarVals, var : VarVals] :
     /\ t.var = SampleVariance(t.ret, t.cvar)
     /\ (CvarDeterministic \/ t.cvar = 0)}

CvarDraws ==
  IF CvarDeterministic THEN {[r \in Calls |-> [i \in 1 .. populacao |-> 0]]}
  ELSE [Calls -> [1 .. populacao -> CvarVals]]

\* the table of evaluate on the vectors of the current generation (E: the
\* individuals evaluated last), extended by f on the new vectors
MetricsTable(E, f) ==
  [w \in {e.w : e \in E} \cup DOMAIN f |->
     IF w \in DOMAIN f THEN f[w]
     ELSE LET e == CHOOSE x \in E : x.w = w
          IN  [ret |-> e.ret, cvar |-> IF CvarDeterministic THEN e.cvar ELSE 0, var |-> e.var]]

\* the metrics evaluate() computes for w: m the function table, c the draw
\* of the bootstrap inside this call
Metrics(m, w, c) ==
  [ret |-> m[w].ret, cvar |-> IF CvarDeterministic THEN m[w].cvar ELSE c, var |-> m[w].var]

\* ga.py evaluate: (fitness, annual_ret, annual_cvar, annual_var)
Fitness(t) == t.ret - risco_peso * t.cvar - var_peso * t.var

GaEvaluated(w, t) ==
  [w |-> w, fitness |-> Fitness(t), ret |-> t.ret, cvar |-> t.cvar, var |-> t.var]

SeqSet(s) == {s[i] : i \in 1 .. Len(s)}
WeightsOf(ws) == UNION {SeqSet(ws[r]) : r \in Calls}
IndividualsOf(ev) == UNION {SeqSet(ev[r]) : r \in Calls}

\* ------------------------------------------------------------------ GA
\* evaluated.sort(key=lambda x: x[1], reverse=True), stable
SortByFitnessAsc(ev) ==
  LET Before(a, b) == ev[a].fitness < ev[b].fitness \/ (ev[a].fitness = ev[b].fitness /\ a < b)
      p == SortedIdx(Len(ev), Before)
  IN  [k \in 1 .. Len(ev) |-> ev[p[k]]]

SortByFitnessDesc(ev) ==
  LET Before(a, b) == ev[a].fitness > ev[b].fitness \/ (ev[a].fitness = ev[b].fitness /\ a < b)
      p == SortedIdx(Len(ev), Before)
  IN  [k \in 1 .. Len(ev) |-> ev[p[k]]]

\* elite_size = max(2, int(populacao * 0.1))
elite_size_unclamped == populacao \div EliteDiv

elite_size == Max2(EliteMin, populacao \div EliteDiv)

GaHistoryRecordOneBased(g, best) ==
  [generation |-> g + 1, fitness |-> best.fitness, annual_return |-> best.ret,
   annual_cvar |-> best.cvar, annual_variance |-> best.var]

GaHistoryRecord(g, best) ==
  [generation |-> g, fitness |-> best.fitness, annual_return |-> best.ret,
   annual_cvar |-> best.cvar, annual_variance |-> best.var]

GaResultRiskFirst(e) ==
  [retorno_esperado_pct |-> e.cvar * Pct, risco_cvar_pct |-> e.ret * Pct,
   variancia_anual |-> e.var, pesos_pct |-> PesosPct(e.w), tickers |-> Tickers]

GaResult(e) ==
  [retorno_esperado_pct |-> e.ret * Pct, risco_cvar_pct |-> e.cvar * Pct,
   variancia_anual |-> e.var, pesos_pct |-> PesosPct(e.w), tickers |-> Tickers]

NoCall == [r \in Calls |-> <<>>]

\* a return matrix the validation accepts: its shape (n_days, n_assets) and
\* whether all its entries are finite; cov_daily is np.cov of it
ValidMatrix == [n_days |-> MinDays, n_assets |-> NAssets, finite |-> TRUE]

RunInit ==
  /\ return_matrix = ValidMatrix
  /\ cov_daily = "matrix"
  /\ engine \in {"ga", "nsga2"}
  /\ populacao \in PopSizes
  /\ geracoes \in 0 .. MaxGen
  /\ \E s \in ParamSamples :
       /\ seed = s.seed
       /\ use_annual_cvar_bootstrap = s.boot
       /\ risco_peso = s.risco_peso
       /\ var_peso = s.var_peso
  /\ pc = "start"
  /\ gen = 0
  /\ evaluated = NoCall
  /\ new_pop = NoCall
  /\ population_weights = NoCall
  /\ population_objectives = NoCall
  /\ selected = [r \in Calls |-> 0]
  /\ truncated = [r \in Calls |-> FALSE]
  /\ history = NoCall
  /\ results = NoCall
  /\ objs = <<>>
  /\ fronts = <<>>
  /\ front = <<>>
  /\ distances = <<>>
  /\ pick = <<>>

\* population = [random_weights() for _ in range(populacao)]
\* evaluated = [(w, *evaluate(w)) for w in population]
GaInitPopulation ==
  /\ pc = "start" /\ engine = "ga" /\ cov_daily = "matrix"
  /\ \E raws \in [1 .. populacao -> RawDraws] :
       LET population == [i \in 1 .. populacao |-> random_weights(raws[i])]
       IN  \E f \in [SeqSet(population) -> MemoVals], c \in CvarDraws :
             evaluated' = [r \in Calls |-> [i \in 1 .. populacao |->
                 GaEvaluated(population[i], Metrics(f, population[i], c[r][i]))]]
  /\ pc' = "gen_top"
  /\ UNCHANGED <<params, gen, new_pop, nsVars, history, results, fnVars>>

\* top of one generation: sort, history record, elite copy
GaSelect ==
  /\ pc = "gen_top" /\ engine = "ga" /\ gen < geracoes
  /\ evaluated' = [r \in Calls |-> SortByFitnessDesc(evaluated[r])]
  /\ history' = [r \in Calls |-> Append(history[r], GaHistoryRecord(gen, evaluated'[r][1]))]
  /\ new_pop' = [r \in Calls |-> [i \in 1 .. elite_size |-> evaluated'[r][i].w]]
  /\ pc' = "repro"
  /\ UNCHANGED <<params, gen, nsVars, results, fnVars>>

\* while len(new_pop) < populacao
GaLoopGuardLeq(r) == Len(new_pop[r]) <= populacao

GaLoopGuard(r) == Len(new_pop[r]) < populacao

\* one iteration of the reproduction loop
GaChild ==
  /\ pc = "repro" /\ engine = "ga"
  /\ \A r \in Calls : GaLoopGuard(r)
  /\ \E ia \in 1 .. populacao, ib \in 1 .. populacao, a \in AlphaVals, mut \in BOOLEAN :
       \E z \in IF mut THEN NoiseDraws ELSE {NoNoise} :
         new_pop' = [r \in Calls |->
            Append(new_pop[r], MakeChild(evaluated[r][ia].w, evaluated[r][ib].w, a, mut, z))]
  /\ UNCHANGED <<params, pc, gen, evaluated, nsVars, history, results, fnVars>>

\* evaluated = [(w, *evaluate(w)) for w in new_pop]; next generation
GaEvaluate ==
  /\ pc = "repro" /\ engine = "ga"
  /\ \A r \in Calls : ~GaLoopGuard(r)
  /\ \E f \in [WeightsOf(new_pop) \ WeightsOf([r \in Calls |-> [i \in 1 .. Len(evaluated[r]) |-> evaluated[r][i].w]]) -> MemoVals],
        c \in CvarDraws :
       LET m == MetricsTable(IndividualsOf(evaluated), f)
       IN  evaluated' = [r \in Calls |-> [i \in 1 .. Len(new_pop[r]) |->
               GaEvaluated(new_pop[r][i], Metrics(m, new_pop[r][i], c[r][i]))]]
  /\ gen' = gen + 1
  /\ pc' = "gen_top"
  /\ UNCHANGED <<params, new_pop, nsVars, history, results, fnVars>>

\* final sort and the top 10
GaFinish ==
  /\ pc = "gen_top" /\ engine = "ga" /\ ~(gen < geracoes)
  /\ evaluated' = [r \in Calls |-> SortByFitnessDesc(evaluated[r])]
  /\ results' = [r \in Calls |->
        [k \in 1 .. Min2(TopK, Len(evaluated'[r])) |-> GaResult(evaluated'[r][k])]]
  /\ pc' = "done"
  /\ UNCHANGED <<params, gen, new_pop, nsVars, history, fnVars>>

GaNext == GaInitPopulation \/ GaSelect \/ GaChild \/ GaEvaluate \/ GaFinish


\* ------------------------------------------------------------- NSGA-II run
NsHistoryRecord(g, frs, po) ==
  LET best == po[frs[1][1]]
  IN  [generation |-> g, annual_return |-> best[1], annual_cvar |-> best[2],
       fitness |-> best[1] - best[2], front_size |-> Len(frs[1])]

\* compute_portfolio_variance(w, cov_daily) for a vector whose objectives are o
NsVariance(o) == SampleVariance(o[1], IF CvarDeterministic THEN o[2] ELSE 0)

NsResult(w, o) ==
  [retorno_esperado_pct |-> o[1] * Pct, risco_cvar_pct |-> o[2] * Pct,
   variancia_anual |-> NsVariance(o), pesos_pct |-> PesosPct(w), tickers |-> Tickers]

\* results.sort(key=lambda x: x["retorno_esperado_pct"], reverse=True)
SortByReturnAsc(rs) ==
  LET Before(a, b) ==
        \/ rs[a].retorno_esperado_pct < rs[b].retorno_esperado_pct
        \/ (rs[a].retorno_esperado_pct = rs[b].retorno_esperado_pct /\ a < b)
      p == SortedIdx(Len(rs), Before)
  IN  [k \in 1 .. Len(rs) |-> rs[p[k]]]

SortByReturnDesc(rs) ==
  LET Before(a, b) ==
        \/ rs[a].retorno_esperado_pct > rs[b].retorno_esperado_pct
        \/ (rs[a].retorno_esperado_pct = rs[b].retorno_esperado_pct /\ a < b)
      p == SortedIdx(Len(rs), Before)
  IN  [k \in 1 .. Len(rs) |-> rs[p[k]]]

\* the draws of one pass of the reproduction loop: four tournament indices,
\* the blend, the mutation, and what evaluate returns for a new child
ChildDraws ==
  [idx1 : 1 .. populacao, idx2 : 1 .. populacao, idx3 : 1 .. populacao, idx4 : 1 .. populacao,
   alpha : AlphaVals, mut : BOOLEAN, z : NoiseDraws, m : MemoVals, c : [Calls -> CvarVals]]

\* evaluate(child) in call r, given the individuals already evaluated
NsEvaluateChild(r, child, nw, no, d) ==
  LET known == {i \in 1 .. Len(nw) : nw[i] = child}
      o == IF known # {} THEN no[CHOOSE i \in known : TRUE] ELSE <<d.m.ret, d.m.cvar>>
  IN  <<o[1], IF CvarDeterministic THEN o[2] ELSE d.c[r]>>

\* "while len(new_pop_weights) < populacao": tournament, crossover, mutation
RECURSIVE NsReproduce(_, _, _, _, _)
NsReproduce(r, nw, no, ds, j) ==
  IF ~(Len(nw) < populacao) \/ j > Len(ds) THEN [w |-> nw, o |-> no]
  ELSE LET d == ds[j]
           parent1 == nw[TournamentPick(d.idx1, d.idx2)]
           parent2 == nw[TournamentPick(d.idx3, d.idx4)]
           child == MakeChild(parent1, parent2, d.alpha, d.mut, d.z)
       IN  NsReproduce(r, Append(nw, child),
                       Append(no, NsEvaluateChild(r, child, nw, no, d)), ds, j + 1)

\* the body of "for gen in range(geracoes)" for call r, on the draws ds
NsGenerationOf(r, ds) ==
  LET pw == population_weights[r]
      po == population_objectives[r]
      frs == fast_non_dominated_sort(po)
      sel == EnvSelect(frs, po, populacao)
      nw == [k \in 1 .. Len(sel.idx) |-> pw[sel.idx[k]]]
      no == [k \in 1 .. Len(sel.idx) |-> po[sel.idx[k]]]
      new == NsReproduce(r, nw, no, ds, 1)
  IN  [w |-> new.w, o |-> new.o, selected |-> Len(sel.idx), cut |-> sel.cut,
       history |-> IF Len(frs) > 0 /\ Len(frs[1]) > 0
                   THEN Append(history[r], NsHistoryRecord(gen, frs, po))
                   ELSE history[r]]

\* how many children the reproduction loop of this generation makes
NsMissing ==
  LET r == CHOOSE x \in Calls : TRUE
      sel == EnvSelect(fast_non_dominated_sort(population_objectives[r]),
                       population_objectives[r], populacao)
  IN  populacao - Len(sel.idx)

\* population_weights = [random_weights() ...]; population_objectives = [evaluate(w) ...]
NsInitPopulation ==
  /\ pc = "start" /\ engine = "nsga2"
  /\ \E raws \in [1 .. populacao -> RawDraws] :
       LET population == [i \in 1 .. populacao |-> random_weights(raws[i])]
       IN  \E f \in [SeqSet(population) -> MemoVals], c \in CvarDraws :
             /\ population_weights' = [r \in Calls |-> population]
             /\ population_objectives' = [r \in Calls |-> [i \in 1 .. populacao |->
                   LET t == Metrics(f, population[i], c[r][i]) IN <<t.ret, t.cvar>>]]
  /\ pc' = "gen_top"
  /\ UNCHANGED <<params, gen, gaVars, selected, truncated, history, results, fnVars>>

\* one generation: sort into fronts, history record, environmental
\* selection, reproduction up to populacao individuals
NsGeneration ==
  /\ pc = "gen_top" /\ engine = "nsga2" /\ gen < geracoes
  /\ \E ds \in [1 .. NsMissing -> ChildDraws] :
       /\ \A j \in 1 .. NsMissing : \A i \in {ds[j].idx1, ds[j].idx2, ds[j].idx3, ds[j].idx4} :
             i <= populacao - NsMissing + j - 1
       /\ population_weights' = [r \in Calls |-> NsGenerationOf(r, ds).w]
       /\ population_objectives' = [r \in Calls |-> NsGenerationOf(r, ds).o]
       /\ selected' = [r \in Calls |-> NsGenerationOf(r, ds).selected]
       /\ truncated' = [r \in Calls |-> truncated[r] \/ NsGenerationOf(r, ds).cut]
       /\ history' = [r \in Calls |-> NsGenerationOf(r, ds).history]
  /\ gen' = gen + 1
  /\ UNCHANGED <<params, pc, gaVars, results, fnVars>>

\* final front 0, capped at 20, sorted by return
NsFinish ==
  /\ pc = "gen_top" /\ engine = "nsga2" /\ ~(gen < geracoes) /\ cov_daily = "matrix"
  /\ results' = [r \in Calls |->
        LET final_fronts == fast_non_dominated_sort(population_objectives[r])
            pareto_front == IF Len(final_fronts) > 0 THEN final_fronts[1] ELSE <<>>
            top == SubSeq(pareto_front, 1, Min2(ParetoCap, Len(pareto_front)))
        IN  SortByReturnDesc([k \in 1 .. Len(top) |->
               NsResult(population_weights[r][top[k]], population_objectives[r][top[k]])])]
  /\ pc' = "done"
  /\ UNCHANGED <<params, gen, gaVars, nsVars, history, fnVars>>

NsNext == NsInitPopulation \/ NsGeneration \/ NsFinish

\* --------------------------------------------- the sorting functions alone
\* fast_non_dominated_sort, crowding_distance and the tournament, applied to
\* every list of at most MaxLen objective pairs over 0 .. MaxVal
ObjPairs == (0 .. MaxVal) \X (0 .. MaxVal)
ObjLists == UNION {[1 .. n -> ObjPairs] : n \in 1 .. MaxLen}

FnInit ==
  /\ objs \in ObjLists
  /\ return_matrix = ValidMatrix
  /\ cov_daily = "matrix"
  /\ engine = "functions"
  /\ populacao = Len(objs)
  /\ geracoes = 0
  /\ seed = NoSeed
  /\ use_annual_cvar_bootstrap = TRUE
  /\ risco_peso = 1
  /\ var_peso = 0
  /\ pc = "fn_start"
  /\ gen = 0
  /\ evaluated = NoCall
  /\ new_pop = NoCall
  /\ population_weights = NoCall
  /\ population_objectives = NoCall
  /\ selected = [r \in Calls |-> 0]
  /\ truncated = [r \in Calls |-> FALSE]
  /\ history = NoCall
  /\ results = NoCall
  /\ fronts = <<>>
  /\ front = <<>>
  /\ distances = <<>>
  /\ pick = <<>>

\* fronts = fast_non_dominated_sort(population_objectives)
FnSort ==
  /\ pc = "fn_start"
  /\ fronts' = fast_non_dominated_sort(objs)
  /\ pc' = "fn_sorted"
  /\ UNCHANGED <<params, gen, gaVars, nsVars, history, results, objs, front, distances, pick>>

\* distances = crowding_distance(current_front, population_objectives)
FnCrowd ==
  /\ pc = "fn_sorted"
  /\ \E k \in 1 .. Len(fronts) :
       /\ front' = fronts[k]
       /\ distances' = crowding_distance(fronts[k], objs)
  /\ pc' = "fn_crowded"
  /\ UNCHANGED <<params, gen, gaVars, nsVars, history, results, objs, fronts, pick>>

\* one tournament on the population environmental selection returns:
\* order lists the members of new_pop_weights by their index in objs
FnTournament ==
  /\ pc = "fn_sorted"
  /\ LET sel == EnvSelect(fronts, objs, populacao)
     IN  \E idx1 \in 1 .. Len(sel.idx), idx2 \in 1 .. Len(sel.idx) :
           pick' = [idx1 |-> idx1, idx2 |-> idx2,
                    parent |-> TournamentPick(idx1, idx2), order |-> sel.idx]
  /\ pc' = "fn_picked"
  /\ UNCHANGED <<params, gen, gaVars, nsVars, history, results, objs, fronts, front, distances>>

FnNext == FnSort \/ FnCrowd \/ FnTournament
FnSpec == FnInit /\ [][FnNext]_vars

Init == RunInit
Next == GaNext \/ NsNext
Spec == Init /\ [][Next]_vars

\* ------------------------------------------- populations above the caps
\* The results of a run are cut at 10 (run_ga) and at 20 (run_nsga2), which
\* only a population larger than that shows.  FinalInit is the state of a
\* call with geracoes = 0 right after the initial population was drawn and
\* evaluated, for one individual more than the cap: the vectors are the
\* corners of the simplex in turn (the draw of random_weights is 1 for one
\* asset and 0 for the others), the return and the variance are any function
\* of the vector, and the unseeded bootstrap CVaR equals the return except
\* for at most two individuals (FinalFlips).
FinalWeights(i) ==
  random_weights([k \in 1 .. NAssets |-> IF k = ((i - 1) % NAssets) + 1 THEN 1 ELSE 0])

FinalFlips(n) == {{i, j} : i \in 1 .. n, j \in 1 .. n} \cup {{}}

FinalMetrics(f, P, i) ==
  LET t == f[FinalWeights(i)]
  IN  [ret |-> t.ret, cvar |-> IF i \in P THEN 1 - t.ret ELSE t.ret, var |-> t.var]

FinalInit ==
  /\ return_matrix = ValidMatrix
  /\ cov_daily = "matrix"
  /\ engine \in {"ga", "nsga2"}
  /\ populacao = IF engine = "ga" THEN TopK + 1 ELSE ParetoCap + 1
  /\ geracoes = 0
  /\ seed = NoSeed
  /\ use_annual_cvar_bootstrap = TRUE
  /\ risco_peso = 1
  /\ var_peso = 0
  /\ pc = "gen_top"
  /\ gen = 0
  /\ \E f \in [{FinalWeights(i) : i \in 1 .. populacao} -> MemoVals], P \in FinalFlips(populacao) :
       /\ evaluated = [r \in Calls |->
            IF engine = "ga"
            THEN [i \in 1 .. populacao |-> GaEvaluated(FinalWeights(i), FinalMetrics(f, P, i))]
            ELSE <<>>]
       /\ population_weights = [r \in Calls |->
            IF engine = "nsga2" THEN [i \in 1 .. populacao |-> FinalWeights(i)] ELSE <<>>]
       /\ population_objectives = [r \in Calls |->
            IF engine = "nsga2"
            THEN [i \in 1 .. populacao |->
                    <<FinalMetrics(f, P, i).ret, FinalMetrics(f, P, i).cvar>>]
            ELSE <<>>]
  /\ new_pop = NoCall
  /\ selected = [r \in Calls |-> 0]
  /\ truncated = [r \in Calls |-> FALSE]
  /\ history = NoCall
  /\ results = NoCall
  /\ objs = <<>>
  /\ fronts = <<>>
  /\ front = <<>>
  /\ distances = <<>>
  /\ pick = <<>>

\* the runs of Spec, and the calls that start from FinalInit
FinalSpec == (RunInit \/ FinalInit) /\ [][Next]_vars

\* ------------------------------------------------- the checks on the inputs
\* The sampled matrices: no row, one row, two rows (fewer than the 30 the
\* warning of run_ga asks for) and 30 rows; as many columns as tickers or one
\* more; all entries finite or not.
DaySamples == {0, 1, 2, MinDays}
MatrixSamples ==
  [n_days : DaySamples, n_assets : {NAssets, NAssets + 1}, finite : BOOLEAN]

\* np.cov(return_matrix, rowvar=False): NaN entries when the matrix has a
\* non-finite entry or no row; for a single row numpy 2 returns a matrix of
\* NaN and older releases, which do not transpose a single row, return the
\* 0-d variance of that row; a matrix otherwise
np_cov(m) ==
  IF ~m.finite \/ m.n_days = 0 THEN {"nan"}
  ELSE IF m.n_days = 1 THEN {"nan", "scalar"}
  ELSE {"matrix"}

CallInit ==
  /\ return_matrix \in MatrixSamples
  /\ cov_daily = "unset"
  /\ engine \in {"ga", "nsga2"}
  /\ populacao \in PopSizes
  /\ geracoes \in 0 .. MaxGen
  /\ \E s \in ParamSamples :
       /\ seed = s.seed
       /\ use_annual_cvar_bootstrap = s.boot
       /\ risco_peso = s.risco_peso
       /\ var_peso = s.var_peso
  /\ pc = "call"
  /\ gen = 0
  /\ evaluated = NoCall
  /\ new_pop = NoCall
  /\ population_weights = NoCall
  /\ population_objectives = NoCall
  /\ selected = [r \in Calls |-> 0]
  /\ truncated = [r \in Calls |-> FALSE]
  /\ history = NoCall
  /\ results = NoCall
  /\ objs = <<>>
  /\ fronts = <<>>
  /\ front = <<>>
  /\ distances = <<>>
  /\ pick = <<>>

\* the checks at the top of run_ga and run_nsga2: the column count against
\* len(tickers), then the covariance against NaN.  Fewer than 30 rows make
\* run_ga print a warning and nothing else.
Validate ==
  /\ pc = "call"
  /\ IF return_matrix.n_assets # Len(Tickers)
     THEN pc' = "raised" /\ cov_daily' = cov_daily
     ELSE \E c \in np_cov(return_matrix) :
            /\ cov_daily' = c
            /\ pc' = IF c = "nan" THEN "raised" ELSE "start"
  /\ UNCHANGED <<return_matrix, engine, populacao, geracoes, seed,
                 use_annual_cvar_bootstrap, risco_peso, var_peso,
                 gen, gaVars, nsVars, history, results, fnVars>>

\* compute_portfolio_variance on a 0-d covariance: weights.T @ cov_annual
\* raises.  run_ga reaches it in the first evaluate of the initial
\* population, run_nsga2 only when it builds the results.
GaVarianceRaises ==
  /\ pc = "start" /\ engine = "ga" /\ cov_daily = "scalar"
  /\ pc' = "raised"
  /\ UNCHANGED <<params, gen, gaVars, nsVars, history, results, fnVars>>

NsVarianceRaises ==
  /\ pc = "gen_top" /\ engine = "nsga2" /\ ~(gen < geracoes) /\ cov_daily = "scalar"
  /\ pc' = "raised"
  /\ UNCHANGED <<params, gen, gaVars, nsVars, history, results, fnVars>>

CallNext == Validate \/ GaVarianceRaises \/ NsVarianceRaises \/ Next
CallSpec == CallInit /\ [][CallNext]_vars


\* ------------------------------------- what a pure-function check leaves idle
PureDefaults ==
  /\ return_matrix = ValidMatrix
  /\ cov_daily = "matrix"
  /\ geracoes = 0
  /\ seed = NoSeed
  /\ use_annual_cvar_bootstrap = TRUE
  /\ risco_peso = 1
  /\ var_peso = 0
  /\ gen = 0
  /\ evaluated = NoCall
  /\ population_objectives = NoCall
  /\ selected = [r \in Calls |-> 0]
  /\ truncated = [r \in Calls |-> FALSE]
  /\ history = NoCall
  /\ results = NoCall

\* ------------------------------------ the vector operators of the four engines
\* app/ga/genetic.py random_population: v = rand(n); v / v.sum()
\* (a division by a zero sum leaves 0/0 in every entry: denominator 0)
genetic_random(raw) == DivBySum([n |-> raw, d |-> DrawDen])

\* app/ga/genetic.py sbx_crossover: maximum(c, 0) then c / c.sum()
genetic_sbx(a, p1, p2) == DivBySum(Clip(Crossover(a, p1, p2)))

\* app/ga/genetic.py mutate: noise, clip, uniform when the sum is 0
genetic_mutate(ind, z) == Renormalise(AddNoise(ind, z))

\* optimizer_service.run_ga: the vector c1 (or c2) right before
\* "c1 /= c1.sum()", which the model writes DivBySum
service_mutated(c, mut, z) == IF mut THEN Clip(AddNoise(c, z)) ELSE c

\* the vector of run_ga / run_nsga2 right before the test "s == 0"
ga_clipped(pa, pb, a, mut, z) ==
  LET c0 == Crossover(a, pa, pb)
  IN  Clip(IF mut THEN AddNoise(c0, z) ELSE c0)

\* Each operator applied once to parents on the simplex: pick.raw lists the
\* vectors right before the final normalisation, new_pop the vectors built.
SimplexSamples == {random_weights(raw) : raw \in RawDraws}

OpInit ==
  /\ PureDefaults
  /\ engine = "operators"
  /\ populacao = 2
  /\ pc = "op_start"
  /\ population_weights \in [Calls -> [1 .. 2 -> SimplexSamples]]
  /\ new_pop = NoCall
  /\ objs = <<>>
  /\ fronts = <<>>
  /\ front = <<>>
  /\ distances = <<>>
  /\ pick = <<>>

OpDone(op, raws, built) ==
  /\ pick' = [op |-> op, raw |-> raws]
  /\ new_pop' = [r \in Calls |-> built]
  /\ pc' = "op_done"
  /\ UNCHANGED <<params, gen, evaluated, nsVars, history, results, objs, fronts, front, distances>>

OpGaChild ==
  /\ pc = "op_start"
  /\ \E a \in AlphaVals, mut \in BOOLEAN, z \in NoiseDraws :
       LET p == population_weights[1]
       IN  OpDone("ga", <<ga_clipped(p[1], p[2], a, mut, z)>>, <<MakeChild(p[1], p[2], a, mut, z)>>)

OpGeneticRandom ==
  /\ pc = "op_start"
  /\ \E raw \in RawDraws :
       OpDone("genetic.random_population", <<[n |-> raw, d |-> DrawDen]>>, <<genetic_random(raw)>>)

OpGeneticSbx ==
  /\ pc = "op_start"
  /\ \E a \in AlphaVals :
       LET p == population_weights[1]
       IN  OpDone("genetic.sbx_crossover",
                  <<Clip(Crossover(a, p[1], p[2])), Clip(Crossover(a, p[2], p[1]))>>,
                  <<genetic_sbx(a, p[1], p[2]), genetic_sbx(a, p[2], p[1])>>)

OpGeneticMutate ==
  /\ pc = "op_start"
  /\ \E z \in NoiseDraws :
       LET p == population_weights[1]
       IN  OpDone("genetic.mutate", <<Clip(AddNoise(p[1], z))>>, <<genetic_mutate(p[1], z)>>)

OpServiceChild ==
  /\ pc = "op_start"
  /\ \E a \in AlphaVals, mut1 \in BOOLEAN, mut2 \in BOOLEAN, z1 \in NoiseDraws, z2 \in NoiseDraws :
       LET p == population_weights[1]
           c1 == service_mutated(Crossover(a, p[1], p[2]), mut1, z1)
           c2 == service_mutated(Crossover(a, p[2], p[1]), mut2, z2)
       IN  OpDone("optimizer_service", <<c1, c2>>, <<DivBySum(c1), DivBySum(c2)>>)

OpNext == OpGaChild \/ OpGeneticRandom \/ OpGeneticSbx \/ OpGeneticMutate \/ OpServiceChild
OpSpec == OpInit /\ [][OpNext]_vars


\* ------------------------------------------------------ compute_cvar_daily
\* a return is <<k, 1>>; NaN is <<0, 0>>; a quantile or a mean is <<num, den>>
NaN == <<0, 0>>
IsNaN(x) == x[2] = 0
HasNaN(xs) == \E i \in 1 .. Len(xs) : IsNaN(xs[i])
Neg(x) == <<0 - x[1], x[2]>>

\* np.percentile(returns, q), linear interpolation between the two order
\* statistics around position (n - 1) * q / 100; NaN when an entry is NaN
percentile(xs, q) ==
  IF HasNaN(xs) THEN NaN
  ELSE LET n == Len(xs)
           Before(a, b) == xs[a][1] < xs[b][1] \/ (xs[a][1] = xs[b][1] /\ a < b)
           p == SortedIdx(n, Before)
           h == (n - 1) * q
           lo == h \div 100
           fr == h % 100
       IN  <<100 * xs[p[lo + 1]][1]
               + (IF fr = 0 THEN 0 ELSE fr * (xs[p[lo + 2]][1] - xs[p[lo + 1]][1])), 100>>

\* returns <= var_limit, entry by entry (False when either side is NaN)
StrictlyBelow(x, v) == ~IsNaN(x) /\ ~IsNaN(v) /\ x[1] * v[2] < v[1] * x[2]

AtOrBelow(x, v) == ~IsNaN(x) /\ ~IsNaN(v) /\ x[1] * v[2] <= v[1] * x[2]

\* np.mean
Mean(xs) ==
  IF HasNaN(xs) \/ Len(xs) = 0 THEN NaN
  ELSE <<SumSeq([i \in 1 .. Len(xs) |-> xs[i][1]]), Len(xs)>>

compute_cvar_daily(returns, q) ==
  LET var_limit == percentile(returns, q)
      Keep(x) == AtOrBelow(x, var_limit)
      tail == SelectSeq(returns, Keep)
  IN  [var_limit |-> var_limit, tail |-> tail,
       cvar |-> Neg(Mean(IF Len(tail) = 0 THEN returns ELSE tail))]

\* every list of 1 .. MaxLen returns over -MaxVal .. MaxVal and NaN, at the
\* levels (1 - alpha) * 100 of QSamples
ReturnSamples == {<<k, 1>> : k \in (0 - MaxVal) .. MaxVal} \cup {NaN}
QSamples == {0, 5, 50, 100}

CvarInit ==
  /\ PureDefaults
  /\ engine = "compute_cvar_daily"
  /\ populacao = 2
  /\ pc = "cvar_start"
  /\ objs \in UNION {[1 .. n -> ReturnSamples] : n \in 1 .. MaxLen}
  /\ distances \in {<<q>> : q \in QSamples}
  /\ population_weights = NoCall
  /\ new_pop = NoCall
  /\ fronts = <<>>
  /\ front = <<>>
  /\ pick = <<>>

\* cvar = compute_cvar_daily(returns, alpha): objs holds the returns,
\* distances the level
CvarDaily ==
  /\ pc = "cvar_start"
  /\ pick' = compute_cvar_daily(objs, distances[1])
  /\ pc' = "cvar_done"
  /\ UNCHANGED <<params, gen, gaVars, nsVars, history, results, objs, fronts, front, distances>>

CvarSpec == CvarInit /\ [][CvarDaily]_vars


\* ------------------------------------- the same population in two orders
\* Two calls of run_nsga2 whose evaluate is the same function of the vector
\* (seeded), right after the initial population was drawn and evaluated:
\* call 2 holds the individuals of call 1 in another order.
PermInit ==
  /\ return_matrix = ValidMatrix
  /\ cov_daily = "matrix"
  /\ engine = "nsga2"
  /\ populacao \in PopSizes
  /\ geracoes \in 0 .. MaxGen
  /\ seed = GivenSeed
  /\ use_annual_cvar_bootstrap = TRUE
  /\ risco_peso = 1
  /\ var_peso = 0
  /\ pc = "gen_top"
  /\ gen = 0
  /\ \E population \in [1 .. populacao -> SimplexSamples], order \in Permutations(1 .. populacao) :
       \E f \in [SeqSet(population) -> MemoVals] :
         /\ population_weights =
              [r \in Calls |-> [i \in 1 .. populacao |->
                 IF r = 1 THEN population[i] ELSE population[order[i]]]]
         /\ population_objectives =
              [r \in Calls |-> [i \in 1 .. populacao |->
                 LET w == IF r = 1 THEN population[i] ELSE population[order[i]]
                 IN  <<f[w].ret, f[w].cvar>>]]
  /\ evaluated = NoCall
  /\ new_pop = NoCall
  /\ selected = [r \in Calls |-> 0]
  /\ truncated = [r \in Calls |-> FALSE]
  /\ history = NoCall
  /\ results = NoCall
  /\ objs = <<>>
  /\ fronts = <<>>
  /\ front = <<>>
  /\ distances = <<>>
  /\ pick = <<>>

PermNext == NsGeneration \/ NsFinish
PermSpec == PermInit /\ [][PermNext]_vars


\* ------------------------- the archive: Pareto filter and best compromise
\* app/ga/fronteira.py pareto_front, and the same loops written out in
\* optimizer_service.run_ga.  An objective tuple has three entries, all
\* minimised by the filter: (-return, volatility, CVaR) in app.ga.genetic,
\* (return, volatility, CVaR) in optimizer_service.  An entry is <<k, 1>>,
\* or NaN (the metrics of a weight vector of NaN).
\* all(oj <= o), without any(oj < o)
front_dominates_weak(oj, o) == \A c \in 1 .. Len(o) : AtOrBelow(oj[c], o[c])

\* all(oj <= o) and any(oj < o)
front_dominates(oj, o) ==
  /\ \A c \in 1 .. Len(o) : AtOrBelow(oj[c], o[c])
  /\ \E c \in 1 .. Len(o) : AtOrBelow(oj[c], o[c]) /\ ~AtOrBelow(o[c], oj[c])

\* the first j of the inner loop that marks i as dominated, 0 when none does
dominated_by(os, i) ==
  LET js == {j \in 1 .. Len(os) : j # i /\ front_dominates(os[j], os[i])}
  IN  IF js = {} THEN 0 ELSE CHOOSE j \in js : \A k \in js : j <= k

\* the indices kept, in their original order
pareto_front(os) ==
  LET Keep(i) == dominated_by(os, i) = 0
  IN  SelectSeq([i \in 1 .. Len(os) |-> i], Keep)

\* optimizer_service: if not nondom: nondom = archive[:10]
service_nondom(os) ==
  IF Len(pareto_front(os)) = 0
  THEN [i \in 1 .. Min2(TopK, Len(os)) |-> i]
  ELSE pareto_front(os)

\* min-max normalisation by column, denom[denom == 0] = 1, and the argmin of
\* the row sums; with a NaN in a column every sum is NaN and np.argmin
\* returns the first position.  The sums are kept over the common
\* denominator, the product of the column ranges.
column_range(os, c) ==
  LET vals == {os[i][c][1] : i \in 1 .. Len(os)}
      mn == CHOOSE v \in vals : \A u \in vals : v <= u
      mx == CHOOSE v \in vals : \A u \in vals : v >= u
  IN  [mn |-> mn, denom |-> IF mx - mn = 0 THEN 1 ELSE mx - mn]

norm_sum(os, i) ==
  LET cr == [c \in 1 .. Len(os[i]) |-> column_range(os, c)]
      RECURSIVE Prod(_)
      Prod(c) == IF c = 0 THEN 1 ELSE cr[c].denom * Prod(c - 1)
      D == Prod(Len(os[i]))
  IN  <<SumSeq([c \in 1 .. Len(os[i]) |-> (os[i][c][1] - cr[c].mn) * (D \div cr[c].denom)]), D>>

\* nondom[0]
best_first(os) == 1

best_compromise(os) ==
  IF \E i \in 1 .. Len(os) : HasNaN(os[i]) THEN 1
  ELSE LET sums == [i \in 1 .. Len(os) |-> norm_sum(os, i)[1]]
       IN  CHOOSE i \in 1 .. Len(os) :
             /\ \A k \in 1 .. Len(os) : sums[i] <= sums[k]
             /\ \A k \in 1 .. i - 1 : sums[i] < sums[k]

\* the archives are the lists of 1 .. MaxLen objective tuples over 0, 1 and 3
\* (0 and 1 in the last column) and the tuple of a NaN weight vector: NaN
\* weights give (NaN, NaN, NaN) in optimizer_service.portfolio_metrics and
\* (NaN, NaN, 0) in evaluate_candidate, whose compute_cvar drops the NaN
ArchiveTuples(e) ==
  {t \in [1 .. 3 -> {<<0, 1>>, <<1, 1>>, <<3, 1>>}] : t[3] # <<3, 1>>}
    \cup {IF e = "genetic" THEN <<NaN, NaN, <<0, 1>>>> ELSE <<NaN, NaN, NaN>>}

ArchiveInit ==
  /\ PureDefaults
  /\ engine \in {"optimizer_service", "genetic"}
  /\ populacao = 2
  /\ pc = "archive"
  /\ objs \in UNION {[1 .. n -> ArchiveTuples(engine)] : n \in 1 .. MaxLen}
  /\ population_weights = NoCall
  /\ new_pop = NoCall
  /\ fronts = <<>>
  /\ front = <<>>
  /\ distances = <<>>
  /\ pick = <<>>

\* optimizer_service.run_ga lines 119-134: front lists the indices kept,
\* distances the index that removed each solution
ServiceFilter ==
  /\ pc = "archive" /\ engine = "optimizer_service"
  /\ front' = service_nondom(objs)
  /\ distances' = [i \in 1 .. Len(objs) |-> dominated_by(objs, i)]
  /\ pc' = "filtered"
  /\ UNCHANGED <<params, gen, gaVars, nsVars, history, results, objs, fronts, pick>>

\* app.ga.genetic.run_ga line 95: nondom = pareto_front(archive)
GeneticFront ==
  /\ pc = "archive" /\ engine = "genetic"
  /\ front' = pareto_front(objs)
  /\ distances' = [i \in 1 .. Len(objs) |-> dominated_by(objs, i)]
  /\ pc' = "filtered"
  /\ UNCHANGED <<params, gen, gaVars, nsVars, history, results, objs, fronts, pick>>

\* best = nondom[argmin(norm.sum(axis=1))], in both engines
BestCompromise ==
  /\ pc = "filtered"
  /\ pick' = [best |-> front[best_compromise([k \in 1 .. Len(front) |-> objs[front[k]]])]]
  /\ pc' = "best"
  /\ UNCHANGED <<params, gen, gaVars, nsVars, history, results, objs, fronts, front, distances>>

\* pareto_front applied to the list it returned
FrontAgain ==
  /\ pc = "filtered" /\ engine = "genetic"
  /\ fronts' = <<pareto_front([k \in 1 .. Len(front) |-> objs[front[k]]])>>
  /\ pc' = "again"
  /\ UNCHANGED <<params, gen, gaVars, nsVars, history, results, objs, front, distances, pick>>

ArchiveNext == ServiceFilter \/ GeneticFront \/ BestCompromise \/ FrontAgain
ArchiveSpec == ArchiveInit /\ [][ArchiveNext]_vars


\* ------------------------------------------ the weight arrays as objects
\* run_ga and run_nsga2 hold numpy arrays by reference.  objs is the heap (an
\* address is a position of it), fronts lists the addresses of the current
\* individuals (evaluated[i][0], population_weights[i]), front those of
\* new_pop / new_pop_weights, pick the locals pa, pb, child of the loop body.
\* w.copy(), a * pa + (1 - a) * pb, np.clip and child / s build a new array;
\* "child += noise" writes into the array child names.
HeapCrossoverInPlace(h, pa, pb, a) ==
  [heap |-> [h EXCEPT ![pa] = Crossover(a, h[pa], h[pb])], child |-> pa]

HeapCrossover(h, pa, pb, a) ==
  [heap |-> Append(h, Crossover(a, h[pa], h[pb])), child |-> Len(h) + 1]

HeapInit ==
  /\ return_matrix = ValidMatrix
  /\ cov_daily = "matrix"
  /\ engine \in {"ga", "nsga2"}
  /\ populacao \in PopSizes
  /\ geracoes \in 1 .. MaxGen
  /\ seed = NoSeed
  /\ use_annual_cvar_bootstrap = TRUE
  /\ risco_peso = 1
  /\ var_peso = 0
  /\ pc = "heap_top"
  /\ gen = 0
  /\ evaluated = NoCall
  /\ new_pop = NoCall
  /\ population_weights = NoCall
  /\ population_objectives = NoCall
  /\ selected = [r \in Calls |-> 0]
  /\ truncated = [r \in Calls |-> FALSE]
  /\ history = NoCall
  /\ results = NoCall
  /\ objs \in [1 .. populacao -> SimplexSamples]
  /\ fronts = [i \in 1 .. populacao |-> i]
  /\ front = <<>>
  /\ distances = <<>>
  /\ pick = <<>>

\* ga.py:193 new_pop = [evaluated[i][0].copy() for i in range(elite_size)];
\* nsga2.py:199-201 population_weights[idx].copy() for every index of every
\* front (the fronts always fit, so all populacao individuals are copied)
HeapCopy ==
  /\ pc = "heap_top" /\ gen < geracoes
  /\ LET n == IF engine = "ga" THEN elite_size ELSE populacao
     IN  /\ objs' = objs \o [i \in 1 .. n |-> objs[fronts[i]]]
         /\ front' = [i \in 1 .. n |-> Len(objs) + i]
  /\ pc' = "heap_loop"
  /\ UNCHANGED <<params, gen, gaVars, nsVars, history, results, fronts, distances, pick>>

\* pa, pb and child = alpha * pa + (1 - alpha) * pb: run_ga draws the
\* parents from evaluated, run_nsga2 from new_pop_weights
HeapCross ==
  /\ pc = "heap_loop" /\ Len(front) < populacao
  /\ LET pool == IF engine = "ga" THEN fronts ELSE front
     IN  \E ia \in 1 .. Len(pool), ib \in 1 .. Len(pool), a \in AlphaVals :
           LET c == HeapCrossover(objs, pool[ia], pool[ib], a)
           IN  /\ objs' = c.heap
               /\ pick' = [pa |-> pool[ia], pb |-> pool[ib], a |-> a, child |-> c.child]
  /\ pc' = "heap_crossed"
  /\ UNCHANGED <<params, gen, gaVars, nsVars, history, results, fronts, front, distances>>

\* child += rng.normal(0, 0.05, size=n_assets)
HeapMutate ==
  /\ pc = "heap_crossed"
  /\ \E z \in NoiseDraws : objs' = [objs EXCEPT ![pick.child] = AddNoise(objs[pick.child], z)]
  /\ pc' = "heap_mutated"
  /\ UNCHANGED <<params, gen, gaVars, nsVars, history, results, fronts, front, distances, pick>>

\* child = np.clip(child, 0, None); child = uniform or child / s;
\* new_pop.append(child)
HeapAppend ==
  /\ pc \in {"heap_crossed", "heap_mutated"}
  /\ objs' = Append(objs, Renormalise(objs[pick.child]))
  /\ front' = Append(front, Len(objs) + 1)
  /\ pick' = <<>>
  /\ pc' = "heap_loop"
  /\ UNCHANGED <<params, gen, gaVars, nsVars, history, results, fronts, distances>>

\* evaluated = [(w, *evaluate(w)) for w in new_pop];
\* population_weights = new_pop_weights
HeapNextGeneration ==
  /\ pc = "heap_loop" /\ ~(Len(front) < populacao)
  /\ fronts' = front
  /\ front' = <<>>
  /\ gen' = gen + 1
  /\ pc' = "heap_top"
  /\ UNCHANGED <<params, gaVars, nsVars, history, results, objs, distances, pick>>

HeapNext == HeapCopy \/ HeapCross \/ HeapMutate \/ HeapAppend \/ HeapNextGeneration
HeapSpec == HeapInit /\ [][HeapNext]_vars


\* ---------------------------------------- the generator of the process
\* app.ga.genetic and optimizer_service draw from numpy's module-level
\* generator (np.random.rand, randint, normal, dirichlet) and from
\* random.sample / random.choice; genetic.py seeds both once, at import.
\* objs is the stream that generator produces, pick.pos how many values the
\* process has taken from it, front[c] the values call c has obtained so far,
\* fronts[c] where call c is and distances[c] what it built.  A call is
\* followed up to its first individual (the n_assets draws of
\* random_population, or of np.random.dirichlet(np.ones(n))), from which
\* everything it returns is computed.
RequestIds == {1, 2}

\* np.random.dirichlet(np.ones(n)): positive draws divided by their sum
service_dirichlet(raw) == DivBySum([n |-> [i \in 1 .. Len(raw) |-> raw[i] + 1], d |-> DrawDen])

first_individual(e, raw) == IF e = "genetic" THEN genetic_random(raw) ELSE service_dirichlet(raw)

ProcessInit ==
  /\ PureDefaults
  /\ engine \in {"genetic", "optimizer_service"}
  /\ populacao = 2
  /\ pc = "serving"
  /\ objs \in [1 .. NAssets * Cardinality(RequestIds) -> DrawVals]
  /\ pick = [pos |-> 0]
  /\ front = [c \in RequestIds |-> <<>>]
  /\ fronts = [c \in RequestIds |-> "idle"]
  /\ distances = [c \in RequestIds |-> <<>>]
  /\ population_weights = NoCall
  /\ new_pop = NoCall

\* run_ga is called
ProcessCall ==
  /\ \E c \in RequestIds :
       /\ fronts[c] = "idle"
       /\ fronts' = [fronts EXCEPT ![c] = "running"]
  /\ UNCHANGED <<params, pc, gen, gaVars, nsVars, history, results, objs, front, distances, pick>>

\* one draw: the next value of the generator of the process
ProcessDraw ==
  /\ \E c \in RequestIds :
       /\ fronts[c] = "running" /\ Len(front[c]) < NAssets
       /\ front' = [front EXCEPT ![c] = Append(front[c], objs[pick.pos + 1])]
  /\ pick' = [pos |-> pick.pos + 1]
  /\ UNCHANGED <<params, pc, gen, gaVars, nsVars, history, results, objs, fronts, distances>>

\* the individual is built from the values the call obtained
ProcessBuild ==
  /\ \E c \in RequestIds :
       /\ fronts[c] = "running" /\ Len(front[c]) = NAssets
       /\ distances' = [distances EXCEPT ![c] = <<first_individual(engine, front[c])>>]
       /\ fronts' = [fronts EXCEPT ![c] = "done"]
  /\ UNCHANGED <<params, pc, gen, gaVars, nsVars, history, results, objs, front, pick>>

ProcessNext == ProcessCall \/ ProcessDraw \/ ProcessBuild
ProcessSpec == ProcessInit /\ [][ProcessNext]_vars


\* --------------------------------------------- run_nsga2 over more generations
\* the calls of run_nsga2 with geracoes up to MaxLen, so that a history holds
\* several records
NsgaInit ==
  /\ return_matrix = ValidMatrix
  /\ cov_daily = "matrix"
  /\ engine = "nsga2"
  /\ populacao \in PopSizes
  /\ geracoes \in 0 .. MaxLen
  /\ \E s \in ParamSamples :
       /\ seed = s.seed
       /\ use_annual_cvar_bootstrap = s.boot
       /\ risco_peso = s.risco_peso
       /\ var_peso = s.var_peso
  /\ pc = "start"
  /\ gen = 0
  /\ evaluated = NoCall
  /\ new_pop = NoCall
  /\ population_weights = NoCall
  /\ population_objectives = NoCall
  /\ selected = [r \in Calls |-> 0]
  /\ truncated = [r \in Calls |-> FALSE]
  /\ history = NoCall
  /\ results = NoCall
  /\ objs = <<>>
  /\ fronts = <<>>
  /\ front = <<>>
  /\ distances = <<>>
  /\ pick = <<>>

NsgaSpec == NsgaInit /\ [][NsNext]_vars


\* ------------------------------------------- POST /otimizar of backend/main.py
\* Two requests served by the worker threads of one process.  pick[c] is the
\* body of request c, fronts[c] where its handler is, the exception it is
\* handling and the response it sent, distances[c] the parameters the engine
\* it called received, objs the dictionary optimization_progress and front[c]
\* the cleanup thread request c started.  Every access to the dictionary is
\* made under progress_lock, so each is one step.  Weights and confidence
\* levels are in hundredths (risco_peso 100 is 1.0, cvar_alpha 95 is 0.95).
signature(e) ==
  IF e = "ga"
  THEN <<"return_matrix", "tickers", "populacao", "geracoes", "risco_peso", "var_peso",
         "cvar_alpha", "use_annual_cvar_bootstrap", "bootstrap_sims", "seed">>
  ELSE <<"return_matrix", "tickers", "populacao", "geracoes",
         "cvar_alpha", "use_annual_cvar_bootstrap", "bootstrap_sims", "seed">>

defaults ==
  [return_matrix |-> "required", tickers |-> "required", populacao |-> 100, geracoes |-> 50,
   risco_peso |-> 100, var_peso |-> 0, cvar_alpha |-> 95,
   use_annual_cvar_bootstrap |-> TRUE, bootstrap_sims |-> 2000, seed |-> NoSeed]

\* a call f(*args): the k-th argument goes to the k-th parameter, the other
\* parameters keep their defaults
bind_positional(sig, args) ==
  [name \in SeqSet(sig) |->
     LET k == CHOOSE i \in 1 .. Len(sig) : sig[i] = name
     IN  IF k <= Len(args) THEN args[k] ELSE defaults[name]]

\* run_nsga2(return_matrix, tickers, populacao, geracoes, cvar_alpha) and
\* run_ga(return_matrix, tickers, populacao, geracoes, risco_peso, cvar_alpha)
engine_call(data) ==
  IF data.use_nsga2
  THEN bind_positional(signature("nsga2"),
         <<"return_matrix", "tickers", data.populacao, data.geracoes, data.cvar_alpha>>)
  ELSE bind_positional(signature("ga"),
         <<"return_matrix", "tickers", data.populacao, data.geracoes, data.risco_peso, data.cvar_alpha>>)

\* GET /otimizar/progresso/{job_id}
get_optimization_progress(job_id) ==
  IF job_id \in DOMAIN objs THEN objs[job_id]
  ELSE [status |-> "not_found", step |-> ""]

\* optimization_progress[job_id] = {...}
set_progress(job_id, status, step) ==
  [j \in DOMAIN objs \cup {job_id} |->
     IF j = job_id THEN [status |-> status, step |-> step] ELSE objs[j]]

\* str(e) of HTTPException(status_code=400, detail="Portfolio sem ativos")
\* (the accent of the detail is left out): status and detail where Starlette
\* defines __str__, the empty string in the releases before it did
http_exception_str == {"400: Portfolio sem ativos", ""}

Bodies ==
  [job_id : {"a"}, rows : BOOLEAN, use_nsga2 : BOOLEAN, populacao : {100}, geracoes : {50},
   risco_peso : {100, 250}, cvar_alpha : {90, 95}]

EndpointInit ==
  /\ PureDefaults
  /\ engine = "main"
  /\ populacao = 2
  /\ pc = "serving"
  /\ pick \in {b \in [RequestIds -> Bodies \cup
                        [job_id : {"b"}, rows : {TRUE}, use_nsga2 : {TRUE}, populacao : {100},
                         geracoes : {50}, risco_peso : {100}, cvar_alpha : {95}]] :
                 b[1].job_id = "a" /\ (b[2].job_id = "a" => b[2] = [b[1] EXCEPT !.rows = TRUE])}
  /\ fronts = [c \in RequestIds |-> [at |-> "idle", exc |-> "", response |-> <<>>]]
  /\ front = [c \in RequestIds |-> "none"]
  /\ distances = [c \in RequestIds |-> <<>>]
  /\ objs = <<>>
  /\ population_weights = NoCall
  /\ new_pop = NoCall

\* lines 607-621: the body is read and the first entry stored
PostStart ==
  /\ \E c \in RequestIds :
       /\ fronts[c].at = "idle"
       /\ objs' = set_progress(pick[c].job_id, "running", "init")
       /\ fronts' = [fronts EXCEPT ![c].at = "loading"]
  /\ UNCHANGED <<params, pc, gen, gaVars, nsVars, history, results, front, distances, pick>>

\* lines 632-694: the portfolio is read; without rows HTTPException(400) is
\* raised inside the try, otherwise the prices and the metrics are loaded
PostLoad ==
  /\ \E c \in RequestIds :
       /\ fronts[c].at = "loading"
       /\ IF pick[c].rows
          THEN /\ objs' = set_progress(pick[c].job_id, "running", "running_ga")
               /\ fronts' = [fronts EXCEPT ![c].at = "engine"]
          ELSE /\ objs' = set_progress(pick[c].job_id, "running", "loading_portfolio")
               /\ fronts' = [fronts EXCEPT ![c].at = "except", ![c].exc = "HTTPException"]
  /\ UNCHANGED <<params, pc, gen, gaVars, nsVars, history, results, front, distances, pick>>

\* lines 698-709: the engine is called; it returns or raises
PostEngine ==
  /\ \E c \in RequestIds :
       /\ fronts[c].at = "engine"
       /\ distances' = [distances EXCEPT ![c] = engine_call(pick[c])]
       /\ \/ /\ objs' = set_progress(pick[c].job_id, "running", "processing_results")
             /\ fronts' = [fronts EXCEPT ![c].at = "finishing"]
          \/ /\ objs' = objs
             /\ fronts' = [fronts EXCEPT ![c].at = "except", ![c].exc = "ValueError"]
  /\ UNCHANGED <<params, pc, gen, gaVars, nsVars, history, results, front, pick>>

\* lines 938-950: last progress entry, the cleanup thread is started, the
\* result is returned
PostFinish ==
  /\ \E c \in RequestIds :
       /\ fronts[c].at = "finishing"
       /\ objs' = set_progress(pick[c].job_id, "running", "completed")
       /\ front' = [front EXCEPT ![c] = "sleeping"]
       /\ fronts' = [fronts EXCEPT ![c].at = "returned",
                                   ![c].response = [status_code |-> 200, detail |-> ""]]
  /\ UNCHANGED <<params, pc, gen, gaVars, nsVars, history, results, distances, pick>>

\* lines 954-962: except Exception as e (HTTPException is an Exception)
PostExcept ==
  /\ \E c \in RequestIds :
       /\ fronts[c].at = "except"
       /\ objs' = set_progress(pick[c].job_id, "error", "error")
       /\ \E d \in IF fronts[c].exc = "HTTPException" THEN http_exception_str ELSE {"ValueError"} :
            fronts' = [fronts EXCEPT ![c].at = "failed",
                                     ![c].response = [status_code |-> 500, detail |-> d]]
  /\ UNCHANGED <<params, pc, gen, gaVars, nsVars, history, results, front, distances, pick>>

\* lines 943-947: the thread wakes after its sleep(60)
Cleanup ==
  /\ \E c \in RequestIds :
       /\ front[c] = "sleeping"
       /\ objs' = [j \in DOMAIN objs \ {pick[c].job_id} |-> objs[j]]
       /\ front' = [front EXCEPT ![c] = "done"]
  /\ UNCHANGED <<params, pc, gen, gaVars, nsVars, history, results, fronts, distances, pick>>

EndpointNext == PostStart \/ PostLoad \/ PostEngine \/ PostFinish \/ PostExcept \/ Cleanup
EndpointSpec == EndpointInit /\ [][EndpointNext]_vars


\* ----------------------------- the population lists of the engines under app/
\* app.ga.genetic.run_ga and optimizer_service.run_ga, followed for the
\* lengths of their lists: an individual is written as the generation that
\* built it.  front is pop, fronts new_pop, objs the archive, pick the
\* indices the last parent selection drew and distances the passes of the
\* "for _ in range(pop_size // 2)" loop made so far.
SizeInit ==
  /\ return_matrix = ValidMatrix
  /\ cov_daily = "matrix"
  /\ engine \in {"genetic", "optimizer_service"}
  /\ populacao \in PopSizes
  /\ geracoes \in 1 .. MaxLen
  /\ seed = NoSeed
  /\ use_annual_cvar_bootstrap = TRUE
  /\ risco_peso = 1
  /\ var_peso = 0
  /\ pc = "size_top"
  /\ gen = 0
  /\ evaluated = <<<<>>>>
  /\ new_pop = <<<<>>>>
  /\ population_weights = <<<<>>>>
  /\ population_objectives = <<<<>>>>
  /\ selected = <<0>>
  /\ truncated = <<FALSE>>
  /\ history = <<<<>>>>
  /\ results = <<<<>>>>
  /\ objs = <<>>
  /\ fronts = <<>>
  /\ front = [i \in 1 .. populacao |-> 0]
  /\ distances = <<0>>
  /\ pick = <<>>

\* scores = [...]; archive.append(...) for every member of pop; new_pop = []
SizeEvaluate ==
  /\ pc = "size_top" /\ gen < geracoes
  /\ objs' = objs \o front
  /\ fronts' = <<>>
  /\ distances' = <<0>>
  /\ pc' = "size_loop"
  /\ UNCHANGED <<params, gen, gaVars, nsVars, history, results, front, pick>>

\* while len(new_pop) < pop_size (genetic.py:81);
\* for _ in range(pop_size // 2) (optimizer_service.py:99)
SizeLoopGuard ==
  IF engine = "genetic" THEN Len(fronts) < populacao
  ELSE distances[1] < populacao \div 2

\* the indices one parent selection can draw, from 0:
\* random.sample(range(len(pop)), 2) in tournament_selection,
\* np.random.randint(pop_size) twice in optimizer_service
ParentIndices ==
  IF engine = "genetic"
  THEN {p \in (0 .. Len(front) - 1) \X (0 .. Len(front) - 1) : p[1] # p[2]}
  ELSE (0 .. populacao - 1) \X (0 .. populacao - 1)

\* one pass of the loop: two parents, two children; pop[i] raises IndexError
\* when i is not below len(pop)
SizeChildren ==
  /\ pc = "size_loop" /\ SizeLoopGuard
  /\ \E p \in ParentIndices :
       /\ pick' = [i1 |-> p[1], i2 |-> p[2]]
       /\ IF p[1] < Len(front) /\ p[2] < Len(front)
          THEN /\ fronts' = fronts \o <<gen + 1, gen + 1>>
               /\ distances' = <<distances[1] + 1>>
               /\ pc' = "size_loop"
          ELSE /\ pc' = "raised"
               /\ UNCHANGED <<fronts, distances>>
  /\ UNCHANGED <<params, gen, gaVars, nsVars, history, results, objs, front>>

\* pop = new_pop[:pop_size]
SizeNextGeneration ==
  /\ pc = "size_loop" /\ ~SizeLoopGuard
  /\ front' = SubSeq(fronts, 1, Min2(populacao, Len(fronts)))
  /\ gen' = gen + 1
  /\ pc' = "size_top"
  /\ UNCHANGED <<params, gaVars, nsVars, history, results, objs, fronts, distances, pick>>

SizeNext == SizeEvaluate \/ SizeChildren \/ SizeNextGeneration
SizeSpec == SizeInit /\ [][SizeNext]_vars


\* ------------------------------------------ app/ga/evaluate.py objectives
\* app/data/metrics.py compute_cvar(portfolio_returns, alpha=0.95): NaN
\* dropped, 0.0 for an empty series, else the mean of the returns at or below
\* the (1 - alpha) quantile, times sqrt(252).  The value is written in units
\* of sqrt(252).
compute_cvar(portfolio_returns) ==
  LET NotNaN(x) == ~IsNaN(x)
      returns_series == SelectSeq(portfolio_returns, NotNaN)
      var == percentile(returns_series, 5)
      Keep(x) == AtOrBelow(x, var)
  IN  IF Len(returns_series) = 0 THEN <<0, 1>>
      ELSE Mean(SelectSeq(returns_series, Keep))

\* evaluate_candidate: (-mean * 252, vol_ann, cvar_ann); the volatility is a
\* function of the weights and of the covariance, given here as vol
evaluate_candidate(daily_port_ret, vol) ==
  LET m == Mean(daily_port_ret)
  IN  <<<<0 - 252 * m[1], m[2]>>, <<vol, 1>>, compute_cvar(daily_port_ret)>>

\* two candidates: objs holds their daily portfolio returns (1 .. MaxLen
\* days over -MaxVal .. MaxVal), distances their volatilities
CandidateSeries == UNION {[1 .. n -> {<<k, 1>> : k \in (0 - MaxVal) .. MaxVal}] : n \in 1 .. MaxLen}

CandidateInit ==
  /\ PureDefaults
  /\ engine = "genetic"
  /\ populacao = 2
  /\ pc = "candidates"
  /\ objs \in [1 .. 2 -> CandidateSeries]
  /\ distances \in {<<0, 0>>, <<0, 1>>}
  /\ population_weights = NoCall
  /\ new_pop = NoCall
  /\ fronts = <<>>
  /\ front = <<>>
  /\ pick = <<>>

\* scores = [evaluate_candidate(ind, price_df) for ind in pop]
CandidateEvaluate ==
  /\ pc = "candidates"
  /\ fronts' = [i \in 1 .. 2 |-> evaluate_candidate(objs[i], distances[i])]
  /\ pc' = "scored"
  /\ UNCHANGED <<params, gen, gaVars, nsVars, history, results, objs, front, distances, pick>>

\* genetic.dominates on the two score tuples, both ways, and pareto_front
CandidateCompare ==
  /\ pc = "scored"
  /\ pick' = [dominates |-> <<front_dominates(fronts[1], fronts[2]),
                              front_dominates(fronts[2], fronts[1])>>]
  /\ front' = pareto_front(fronts)
  /\ pc' = "compared"
  /\ UNCHANGED <<params, gen, gaVars, nsVars, history, results, objs, fronts, distances>>

CandidateSpec == CandidateInit /\ [][CandidateEvaluate \/ CandidateCompare]_vars


\* ================================================================ claims
AllWeights ==
  UNION {SeqSet(new_pop[r]) \cup SeqSet(population_weights[r])
           \cup {evaluated[r][i].w : i \in 1 .. Len(evaluated[r])} : r \in Calls}

PesosOk(pp) ==
  /\ \A i \in 1 .. Len(pp) : pp[i][2] > 0 /\ 0 <= pp[i][1] /\ pp[i][1] <= Pct * pp[i][2]
  /\ \A i \in 1 .. Len(pp) : pp[i][2] = pp[1][2]
  /\ SumSeq([i \in 1 .. Len(pp) |-> pp[i][1]]) = Pct * pp[1][2]

\* C1: every weight vector held by run_ga or run_nsga2 (initial vectors,
\* elite and survivor copies, offspring) has entries >= 0 that sum to 1, and
\* every returned pesos_pct has entries in [0, 100] that sum to 100.
C1_WeightsOnSimplex ==
  /\ \A w \in AllWeights : IsSimplex(w)
  /\ \A r \in Calls : \A k \in 1 .. Len(results[r]) : PesosOk(results[r][k].pesos_pct)

\* a finished GA run that returns an offspring which is none of the vectors
\* random_weights can draw on this grid
C1_Witness ==
  /\ pc = "done" /\ engine = "ga" /\ geracoes >= 1
  /\ \E k \in 1 .. Len(results[1]) : results[1][k].pesos_pct[1][2] > DrawDen

\* C2: for populacao >= 2 the population holds exactly populacao individuals
\* at the start of every generation and when the run ends; while a generation
\* is being filled it holds between elite_size and populacao.
C2_PopulationSize ==
  \A r \in Calls :
    /\ (engine = "ga" /\ pc \in {"gen_top", "done"}) => Len(evaluated[r]) = populacao
    /\ (engine = "ga" /\ pc = "repro") =>
          (elite_size <= Len(new_pop[r]) /\ Len(new_pop[r]) <= populacao)
    /\ (engine = "nsga2" /\ pc \in {"gen_top", "done"}) =>
          /\ Len(population_weights[r]) = populacao
          /\ Len(population_objectives[r]) = populacao

C2_Witness ==
  /\ pc = "gen_top" /\ engine = "ga" /\ gen >= 1 /\ populacao > elite_size
  /\ Len(evaluated[1]) = populacao

\* C3 (as claimed): in some generation of run_nsga2 the environmental
\* selection cuts a front by crowding distance, keeping fewer survivors than
\* the population holds.  Stated on finished runs of at least one generation.
C3_SomeFrontIsCut ==
  (pc = "done" /\ engine = "nsga2" /\ geracoes >= 1) =>
     \E r \in Calls : truncated[r] /\ selected[r] < populacao

\* C4: front 0 of fast_non_dominated_sort is exactly the set of indices no
\* other index dominates, each listed once; equal pairs are kept together.
NonDominated(pop) ==
  {i \in 1 .. Len(pop) : ~\E j \in 1 .. Len(pop) :
      j # i /\ pop[j][1] >= pop[i][1] /\ pop[j][2] <= pop[i][2]
            /\ (pop[j][1] > pop[i][1] \/ pop[j][2] < pop[i][2])}

C4_FrontZeroIsNonDominated ==
  pc # "fn_start" /\ engine = "functions" =>
    /\ SeqSet(fronts[1]) = NonDominated(objs)
    /\ Cardinality(SeqSet(fronts[1])) = Len(fronts[1])
    /\ \A i \in SeqSet(fronts[1]) : \A j \in 1 .. Len(objs) :
          objs[j] = objs[i] => j \in SeqSet(fronts[1])

C4_Witness ==
  /\ pc = "fn_sorted" /\ Len(fronts) >= 2
  /\ \E i \in SeqSet(fronts[1]) : \E j \in SeqSet(fronts[1]) : i # j /\ objs[i] = objs[j]

\* C5 (as claimed): in the list crowding_distance returns, read by front
\* position, a member holding the minimum and a member holding the maximum
\* of each objective have distance +inf, and every finite value is >= 0.
C5_ExtremesAreInfinite ==
  pc = "fn_crowded" =>
    /\ Len(distances) = Len(front)
    /\ \A obj \in {1, 2} :
         /\ \E k \in 1 .. Len(front) :
              /\ \A m \in 1 .. Len(front) : objs[front[k]][obj] <= objs[front[m]][obj]
              /\ IsInf(distances[k])
         /\ \E k \in 1 .. Len(front) :
              /\ \A m \in 1 .. Len(front) : objs[front[k]][obj] >= objs[front[m]][obj]
              /\ IsInf(distances[k])
    /\ \A k \in 1 .. Len(front) :
         ~IsInf(distances[k]) => (distances[k][2] > 0 /\ distances[k][1] >= 0)

\* C6: dominates is irreflexive and asymmetric on every pair of the list.
C6_DominanceStrictOrder ==
  \A i \in 1 .. Len(objs) : \A j \in 1 .. Len(objs) :
    /\ ~dominates(objs[i], objs[i])
    /\ dominates(objs[i], objs[j]) => ~dominates(objs[j], objs[i])

C6_Witness ==
  /\ pc = "fn_sorted"
  /\ \E i \in 1 .. Len(objs) : \E j \in 1 .. Len(objs) :
       dominates(objs[i], objs[j]) /\ objs[i][1] = objs[j][1]

\* C7 (as claimed): the parent a tournament returns is the candidate of
\* lower non-domination rank and, at equal rank, of larger crowding distance.
RankOf(i) == CHOOSE k \in 1 .. Len(fronts) : i \in SeqSet(fronts[k])

CrowdingOf(i) ==
  LET fr == fronts[RankOf(i)]
      pos == CHOOSE q \in 1 .. Len(fr) : fr[q] = i
  IN  crowding_distance(fr, objs)[pos]

Beats(a, b) ==
  \/ RankOf(a) < RankOf(b)
  \/ (RankOf(a) = RankOf(b) /\ DistGt(CrowdingOf(a), CrowdingOf(b)))

C7_TournamentByRankThenCrowding ==
  pc = "fn_picked" =>
    LET a == pick.order[pick.idx1]
        b == pick.order[pick.idx2]
        w == pick.order[pick.parent]
    IN  w \in {a, b} /\ ~Beats(a, w) /\ ~Beats(b, w)

\* C8: the elite_size fittest individuals of the current population become,
\* with unchanged weights, the first elite_size members of the next one, and
\* the next population has populacao members in all.
IsFittest(pre, chosen) ==
  \E pi \in [1 .. elite_size -> 1 .. Len(pre)] :
    /\ \A i \in 1 .. elite_size : \A j \in 1 .. elite_size : i # j => pi[i] # pi[j]
    /\ \A i \in 1 .. elite_size : chosen[i] = pre[pi[i]].w
    /\ \A i \in 1 .. elite_size : \A j \in 1 .. Len(pre) :
         (\A k \in 1 .. elite_size : pi[k] # j) => pre[j].fitness <= pre[pi[i]].fitness

C8_EliteStep ==
  \A r \in Calls :
    /\ (engine = "ga" /\ pc = "gen_top" /\ pc' = "repro") =>
          /\ Len(new_pop'[r]) = elite_size
          /\ elite_size = Max2(2, populacao \div 10)
          /\ IsFittest(evaluated[r], new_pop'[r])
    /\ (engine = "ga" /\ pc = "repro" /\ pc' = "repro") =>
          SubSeq(new_pop'[r], 1, elite_size) = SubSeq(new_pop[r], 1, elite_size)
    /\ (engine = "ga" /\ pc = "repro" /\ pc' = "gen_top") =>
          /\ Len(evaluated'[r]) = populacao
          /\ \A i \in 1 .. elite_size : evaluated'[r][i].w = new_pop[r][i]

C8_ElitePreserved == [][C8_EliteStep]_vars

C8_Witness ==
  /\ pc = "gen_top" /\ engine = "ga" /\ gen >= 1 /\ populacao > elite_size
  /\ \E i \in 1 .. elite_size : evaluated[1][populacao].fitness > evaluated[1][i].fitness

\* C9: two runs with the same inputs and the same non-null seed return the
\* same results and the same history.
C9_SeededRunsAgree ==
  (seed # NoSeed /\ pc = "done") =>
     \A r \in Calls : \A q \in Calls : results[r] = results[q] /\ history[r] = history[q]

C9_Witness ==
  /\ pc = "done" /\ seed # NoSeed /\ use_annual_cvar_bootstrap /\ geracoes >= 1
  /\ Cardinality(Calls) = 2
  /\ Len(results[2]) >= 2 /\ results[2][1].risco_cvar_pct # results[2][2].risco_cvar_pct

\* C10: every run ends, after exactly geracoes generations, and its history
\* holds one record per generation, numbered 0, 1, .., geracoes - 1.
\* Termination is shown by a countdown: StepsLeft is the number of steps a
\* run still takes (a GA generation is the selection, one step per missing
\* child and the evaluation; an NSGA-II generation is one step); every step
\* lowers it by one, a step exists while it is positive, and it is zero
\* exactly when the run has returned.
HistoryComplete ==
  /\ gen = geracoes
  /\ \A r \in Calls :
       /\ Len(history[r]) = geracoes
       /\ \A g \in 1 .. Len(history[r]) : history[r][g].generation = g - 1

StepsPerGeneration == IF engine = "ga" THEN populacao - elite_size + 2 ELSE 1

StepsLeft ==
  CASE pc = "done" -> 0
    [] pc = "start" -> 2 + geracoes * StepsPerGeneration
    [] pc = "gen_top" -> 1 + (geracoes - gen) * StepsPerGeneration
    [] pc = "repro" ->
         1 + (geracoes - gen - 1) * StepsPerGeneration
           + (populacao - Len(new_pop[CHOOSE r \in Calls : TRUE])) + 1

\* the guards of the actions: some step can be taken (the sets the draws
\* are taken from are never empty)
CanStep ==
  \/ pc \in {"start", "gen_top"}
  \/ /\ pc = "repro" /\ engine = "ga"
     /\ ((\A r \in Calls : GaLoopGuard(r)) \/ (\A r \in Calls : ~GaLoopGuard(r)))

IsPermutation(s, t) ==
  /\ Len(s) = Len(t)
  /\ \A x \in SeqSet(s) \cup SeqSet(t) :
       Cardinality({i \in 1 .. Len(s) : s[i] = x}) = Cardinality({i \in 1 .. Len(t) : t[i] = x})

C11_Step ==
  \A r \in Calls :
    /\ (engine = "ga" /\ pc = "gen_top" /\ pc' = "repro") =>
          LET h == history'[r][Len(history'[r])]
          IN  /\ Len(history'[r]) = Len(history[r]) + 1
              /\ h.generation = gen
              /\ \E i \in 1 .. Len(evaluated[r]) :
                   /\ \A j \in 1 .. Len(evaluated[r]) :
                        evaluated[r][j].fitness <= evaluated[r][i].fitness
                   /\ h.fitness = evaluated[r][i].fitness
                   /\ h.annual_return = evaluated[r][i].ret
                   /\ h.annual_cvar = evaluated[r][i].cvar
                   /\ h.annual_variance = evaluated[r][i].var
    /\ (engine = "ga" /\ pc = "gen_top" /\ pc' = "done") =>
          /\ Len(results'[r]) = Min2(10, populacao)
          /\ IsPermutation(evaluated[r], evaluated'[r])
          /\ \A k \in 1 .. Len(evaluated'[r]) - 1 :
               evaluated'[r][k].fitness >= evaluated'[r][k + 1].fitness
          /\ \A k \in 1 .. Len(results'[r]) :
               /\ results'[r][k].retorno_esperado_pct = 100 * evaluated'[r][k].ret
               /\ results'[r][k].risco_cvar_pct = 100 * evaluated'[r][k].cvar
               /\ results'[r][k].variancia_anual = evaluated'[r][k].var
               /\ results'[r][k].pesos_pct = PesosPct(evaluated'[r][k].w)

C11_TopTenAndHistory == [][C11_Step]_vars

\* a call that returned 10 of 11 individuals, left out one strictly less fit
\* than all it returned, and returned two records that differ
C11_Witness ==
  /\ pc = "done" /\ engine = "ga" /\ populacao > 10
  /\ Len(results[1]) = 10
  /\ evaluated[1][populacao].fitness < evaluated[1][10].fitness
  /\ results[1][1].risco_cvar_pct # results[1][10].risco_cvar_pct

\* C12: run_nsga2 returns at most 20 records, each the record of a member of
\* the final population that no member dominates, in non-increasing order
\* of return; a front 0 of 20 members or fewer is returned whole.
ResultKey(rec) == <<rec.retorno_esperado_pct, rec.risco_cvar_pct, rec.pesos_pct>>

MemberKey(r, i) ==
  <<100 * population_objectives[r][i][1], 100 * population_objectives[r][i][2],
    PesosPct(population_weights[r][i])>>

C12_ParetoResults ==
  (pc = "done" /\ engine = "nsga2") =>
    \A r \in Calls :
      LET nd == NonDominated(population_objectives[r])
          rs == results[r]
      IN  /\ Len(rs) <= 20
          /\ Len(rs) = Min2(20, Cardinality(nd))
          /\ \A k \in 1 .. Len(rs) :
               Cardinality({q \in 1 .. Len(rs) : ResultKey(rs[q]) = ResultKey(rs[k])})
                 <= Cardinality({i \in nd : MemberKey(r, i) = ResultKey(rs[k])})
          /\ \A k \in 1 .. Len(rs) - 1 :
               rs[k].retorno_esperado_pct >= rs[k + 1].retorno_esperado_pct

\* a front 0 of 21 members with two different returns, cut to 20
C12_Witness ==
  /\ pc = "done" /\ engine = "nsga2" /\ populacao > 20
  /\ Cardinality(NonDominated(population_objectives[1])) > 20
  /\ Len(results[1]) = 20
  /\ results[1][1].retorno_esperado_pct > results[1][20].retorno_esperado_pct

\* C13 (as claimed): when len(tickers) differs from the number of columns,
\* when the matrix has too few rows (fewer than the 30 rows below which
\* run_ga warns of too few observations) or when the covariance has a NaN,
\* the call raises before a population or a history record exists and
\* returns nothing: it never gets past the checks, and a call that raised
\* holds no population, no history and no results.
InvalidInput ==
  \/ return_matrix.n_assets # Len(Tickers)
  \/ return_matrix.n_days < MinDays
  \/ ~return_matrix.finite

C13_InvalidInputRaisesFirst ==
  /\ InvalidInput => pc \in {"call", "raised"}
  /\ pc = "raised" =>
       /\ evaluated = NoCall /\ new_pop = NoCall
       /\ population_weights = NoCall /\ population_objectives = NoCall
       /\ history = NoCall /\ results = NoCall

\* C14: run_ga with populacao = 2 runs to its end for every geracoes: the
\* elite count is 2, the elite copy reads the two individuals that exist,
\* the reproduction loop is not entered, every state before the end has a
\* next step, and two results are returned.
C14_Step ==
  (engine = "ga" /\ populacao = 2) =>
    \A r \in Calls :
      /\ (pc = "gen_top" /\ pc' = "repro") =>
            /\ Len(new_pop'[r]) = 2
            /\ \A i \in 1 .. 2 : \E j \in 1 .. Len(evaluated[r]) :
                 new_pop'[r][i] = evaluated[r][j].w
      /\ pc = "repro" => (pc' = "gen_top" /\ Len(evaluated'[r]) = 2)

C14_PopulationOfTwo ==
  /\ []((engine = "ga" /\ populacao = 2) =>
          /\ elite_size = 2
          /\ \A r \in Calls : pc = "gen_top" => elite_size <= Len(evaluated[r])
          /\ pc # "done" => CanStep
          /\ pc = "done" => \A r \in Calls : Len(results[r]) = 2 /\ Len(history[r]) = geracoes)
  /\ [][C14_Step]_vars

C14_Witness ==
  /\ pc = "done" /\ engine = "ga" /\ populacao = 2 /\ geracoes >= 1
  /\ Len(results[1]) = 2 /\ Len(history[1]) = geracoes
  /\ results[1][1].retorno_esperado_pct # results[1][2].retorno_esperado_pct

\* C15 (as claimed): in every engine, a generated, crossed or mutated vector
\* that sums to zero after clipping is replaced by the uniform vector 1/n,
\* so no vector built is the result of a division by a zero sum.
C15_ZeroSumBecomesUniform ==
  pc = "op_done" =>
    \A r \in Calls : \A k \in 1 .. Len(new_pop[r]) :
      /\ new_pop[r][k].d # 0
      /\ SumSeq(pick.raw[k].n) = 0 => new_pop[r][k] = Uniform

\* C16: compute_cvar_daily returns minus the mean of the returns at or
\* below the (1 - alpha)-quantile of its input and, when no return is at or
\* below it, minus the quantile itself.
RatSame(x, y) ==
  IF IsNaN(x) \/ IsNaN(y) THEN IsNaN(x) /\ IsNaN(y) ELSE x[1] * y[2] = y[1] * x[2]

C17_OrderIndependent ==
  (pc = "done" /\ engine = "nsga2" /\ Cardinality(Calls) = 2) =>
    /\ SeqSet(results[1]) = SeqSet(results[2])
    /\ Len(history[1]) = Len(history[2])
    /\ \A g \in 1 .. Len(history[1]) :
         /\ history[1][g].annual_return = history[2][g].annual_return
         /\ history[1][g].annual_cvar = history[2][g].annual_cvar
         /\ history[1][g].front_size = history[2][g].front_size

\* C18 (as claimed): in optimizer_service.run_ga a solution with a strictly
\* higher return and a volatility and CVaR no worse than another archived
\* solution's is never removed as dominated by that other solution.
C18_HigherReturnIsKept ==
  (pc = "filtered" /\ engine = "optimizer_service") =>
    \A i \in 1 .. Len(objs) :
      distances[i] # 0 =>
        LET o == objs[i]
            oj == objs[distances[i]]
        IN  ~(/\ ~HasNaN(o) /\ ~HasNaN(oj)
              /\ o[1][1] > oj[1][1] /\ o[2][1] <= oj[2][1] /\ o[3][1] <= oj[3][1])

\* C19: the best solution of app.ga.genetic.run_ga and of
\* optimizer_service.run_ga is a member of the returned front, and no member
\* of the front has a smaller sum of min-max-normalised objectives, a column
\* whose maximum equals its minimum contributing 0 for every member.  (With a
\* NaN objective in the front every sum is NaN and none is smaller.)
C19_FrontObjs == [k \in 1 .. Len(front) |-> objs[front[k]]]

C19_Range(c) ==
  LET vals == {C19_FrontObjs[k][c][1] : k \in 1 .. Len(front)}
  IN  (CHOOSE v \in vals : \A u \in vals : v >= u)
        - (CHOOSE v \in vals : \A u \in vals : v <= u)

\* the contribution of column c to member k's sum, times the product of the
\* non-zero column ranges
C19_Term(k, c) ==
  LET vals == {C19_FrontObjs[j][c][1] : j \in 1 .. Len(front)}
      mn == CHOOSE v \in vals : \A u \in vals : v <= u
      Others == {d \in 1 .. 3 : d # c /\ C19_Range(d) # 0}
      RECURSIVE Prod(_)
      Prod(S) == IF S = {} THEN 1
                 ELSE LET d == CHOOSE x \in S : TRUE
                      IN  C19_Range(d) * Prod(S \ {d})
  IN  IF C19_Range(c) = 0 THEN 0
      ELSE (C19_FrontObjs[k][c][1] - mn) * Prod(Others)

C19_Sum(k) == C19_Term(k, 1) + C19_Term(k, 2) + C19_Term(k, 3)

C19_BestCompromise ==
  pc = "best" =>
    /\ \E k \in 1 .. Len(front) : front[k] = pick.best
    /\ (\A k \in 1 .. Len(front) : ~HasNaN(C19_FrontObjs[k])) =>
         LET sums == [k \in 1 .. Len(front) |-> C19_Sum(k)]
         IN  \E b \in 1 .. Len(front) :
               /\ front[b] = pick.best
               /\ \A k \in 1 .. Len(front) : sums[b] <= sums[k]

\* a front of several finite members with a column of zero range, whose best
\* member is not the first
C19_Witness ==
  /\ pc = "best"
  /\ Len(front) >= 2
  /\ \A k \in 1 .. Len(front) : ~HasNaN(C19_FrontObjs[k])
  /\ \E c \in 1 .. 3 : C19_Range(c) = 0
  /\ \E c \in 1 .. 3 : C19_Range(c) # 0
  /\ pick.best # front[1]

\* C20: for every non-empty list of solutions, fronteira.pareto_front returns
\* exactly the solutions that no other solution of the list dominates (all
\* objectives <= and at least one <), in their original order; the result is
\* not empty, and pareto_front of the result is the result.
C20_Leq(x, y) == x[2] # 0 /\ y[2] # 0 /\ x[1] <= y[1]

C20_Less(x, y) == x[2] # 0 /\ y[2] # 0 /\ x[1] < y[1]

C20_NonDominated(i) ==
  ~\E j \in 1 .. Len(objs) :
     /\ j # i
     /\ \A c \in 1 .. 3 : C20_Leq(objs[j][c], objs[i][c])
     /\ \E c \in 1 .. 3 : C20_Less(objs[j][c], objs[i][c])

C20_ParetoFront ==
  /\ (engine = "genetic" /\ pc \in {"filtered", "again"}) =>
       /\ {front[k] : k \in 1 .. Len(front)} = {i \in 1 .. Len(objs) : C20_NonDominated(i)}
       /\ \A k \in 1 .. Len(front) - 1 : front[k] < front[k + 1]
       /\ Len(front) >= 1
  /\ (engine = "genetic" /\ pc = "again") =>
       fronts[1] = [k \in 1 .. Len(front) |-> k]

\* a list with a dominated solution and two equal solutions, both kept,
\* filtered twice
C20_Witness ==
  /\ engine = "genetic" /\ pc = "again"
  /\ Len(front) < Len(objs)
  /\ Len(front) >= 2
  /\ objs[front[1]] = objs[front[2]]
  /\ ~HasNaN(objs[front[1]])

\* C21: reproduction in run_ga and run_nsga2 never writes into the weight
\* array of an existing individual: in every step, every array that a current
\* individual or a member of the next population names (the parents and the
\* elite or survivors among them) keeps its contents.
C21_Step ==
  \A a \in SeqSet(fronts) \cup SeqSet(front) : objs'[a] = objs[a]

C21_ParentsUntouched == [][C21_Step]_vars

\* a child that "child += noise" changed in place, built from two different
\* parents
C21_Witness ==
  /\ pc = "heap_mutated"
  /\ pick.pa # pick.pb
  /\ objs[pick.child] # Crossover(pick.a, objs[pick.pa], objs[pick.pb])
  /\ pick.child \notin SeqSet(fronts) \cup SeqSet(front)

\* C22 (as claimed): a call of app.ga.genetic.run_ga or of
\* optimizer_service.run_ga builds what the same call builds when it runs
\* alone (the first call of the process, reading the generator from its
\* start), whether it runs alone, after another call or interleaved with one.
C22_CallsIndependent ==
  \A c \in RequestIds :
    fronts[c] = "done" =>
      distances[c] = <<first_individual(engine, SubSeq(objs, 1, NAssets))>>

\* C23: in run_nsga2 the fronts of the current population always fit in the
\* next one: selection copies all populacao individuals, the overflow branch
\* and the reproduction loop are never entered, every generation holds the
\* vectors of the population before it (the same multiset), and all records
\* of a history carry the same front_size, annual_return and annual_cvar.
C23_Step ==
  (engine = "nsga2" /\ pc = "gen_top") =>
    \A r \in Calls :
      /\ IsPermutation(population_weights'[r], population_weights[r])
      /\ gen' # gen => (NsMissing = 0 /\ selected'[r] = populacao)

C23_PopulationNeverChanges ==
  /\ [](engine = "nsga2" =>
          \A r \in Calls :
            /\ ~truncated[r]
            /\ \A i \in 1 .. Len(history[r]), j \in 1 .. Len(history[r]) :
                 /\ history[r][i].front_size = history[r][j].front_size
                 /\ history[r][i].annual_return = history[r][j].annual_return
                 /\ history[r][i].annual_cvar = history[r][j].annual_cvar)
  /\ [][C23_Step]_vars

\* a finished run of several generations, with the unseeded bootstrap, on a
\* population of more than one front
C23_Witness ==
  /\ engine = "nsga2" /\ pc = "done" /\ Len(history[1]) >= 2
  /\ Len(fast_non_dominated_sort(population_objectives[1])) >= 2
  /\ population_objectives[1][1] # population_objectives[1][populacao]
  /\ dominates(population_objectives[1][1], population_objectives[1][populacao])
  /\ use_annual_cvar_bootstrap /\ seed = NoSeed

\* C24 (as claimed): when POST /otimizar runs the single-objective engine,
\* run_ga receives the request's risco_peso, the variance weight 0 and the
\* request's cvar_alpha as its confidence level.
C24_RequestParametersReachRunGa ==
  \A c \in RequestIds :
    (distances[c] # <<>> /\ ~pick[c].use_nsga2) =>
      /\ distances[c].risco_peso = pick[c].risco_peso
      /\ distances[c].var_peso = 0
      /\ distances[c].cvar_alpha = pick[c].cvar_alpha

\* C29 (as claimed): from the step that stores a run's first progress entry
\* until the run returns or fails, GET /otimizar/progresso/{job_id} for its
\* job_id never answers not_found, whatever the other request and the
\* cleanup threads do.
C29_ProgressEntryKept ==
  \A c \in RequestIds :
    fronts[c].at \in {"loading", "engine", "finishing", "except"} =>
      get_optimization_progress(pick[c].job_id).status # "not_found"

\* C30 (as claimed): POST /otimizar for a portfolio without assets answers
\* with status 400 and detail "Portfolio sem ativos".
C30_EmptyPortfolioIs400 ==
  \A c \in RequestIds :
    (fronts[c].at \in {"returned", "failed"} /\ ~pick[c].rows) =>
      /\ fronts[c].response.status_code = 400
      /\ fronts[c].response.detail = "Portfolio sem ativos"

\* C25 (as claimed): in run_ga the best fitness recorded in history never
\* decreases from one generation to the next, and the fittest individual of
\* the final population is at least as fit as the last record, for every
\* choice of the parameters.
C25_BestFitnessMonotone ==
  engine = "ga" =>
    \A r \in Calls :
      /\ \A g \in 1 .. Len(history[r]) - 1 : history[r][g].fitness <= history[r][g + 1].fitness
      /\ (pc = "done" /\ Len(history[r]) > 0) =>
           history[r][Len(history[r])].fitness <= evaluated[r][1].fitness

\* C26 (as claimed): in optimizer_service.run_ga and app.ga.genetic.run_ga,
\* for every pop_size >= 2, the population holds exactly pop_size individuals
\* at the start of every generation, and no parent selection reads an index
\* outside the population.
C26_PopulationKeepsItsSize ==
  /\ (pc = "size_top" /\ gen < geracoes) => Len(front) = populacao
  /\ pc # "raised"

\* C27 (as claimed): the third objective of evaluate_candidate is a loss
\* framed as a positive number: of two candidates with equal first and second
\* objectives, the one whose returns at or below the 5% quantile have the
\* lower mean gets the larger third objective, and it neither dominates the
\* other nor removes it from the Pareto front.
C27_TailLoss(i) == compute_cvar_daily(objs[i], 5).cvar

C27_CvarIsALoss ==
  pc = "compared" =>
    \A a \in 1 .. 2, b \in 1 .. 2 :
      (/\ RatSame(fronts[a][1], fronts[b][1])
       /\ RatSame(fronts[a][2], fronts[b][2])
       /\ RatLt(C27_TailLoss(b), C27_TailLoss(a))) =>
        /\ RatLt(fronts[b][3], fronts[a][3])
        /\ ~pick.dominates[a]
        /\ \E k \in 1 .. Len(front) : front[k] = b

\* C28: for every list of n >= 1 objective pairs, the fronts returned by
\* fast_non_dominated_sort partition the indices (each index in exactly one
\* front, at one position; no front empty), no member of a front dominates
\* another member of the same front, and every member of front k + 1 is
\* dominated by at least one member of front k.
C28_Dom(a, b) == a[1] >= b[1] /\ a[2] <= b[2] /\ (a[1] > b[1] \/ a[2] < b[2])

C28_FrontsAreLayers ==
  (pc # "fn_start" /\ engine = "functions") =>
    /\ \A i \in 1 .. Len(objs) :
         Cardinality({kp \in (1 .. Len(fronts)) \X (1 .. Len(objs)) :
                        kp[2] <= Len(fronts[kp[1]]) /\ fronts[kp[1]][kp[2]] = i}) = 1
    /\ \A k \in 1 .. Len(fronts) :
         /\ Len(fronts[k]) >= 1
         /\ \A p \in 1 .. Len(fronts[k]) : fronts[k][p] \in 1 .. Len(objs)
         /\ \A p \in 1 .. Len(fronts[k]), q \in 1 .. Len(fronts[k]) :
              ~C28_Dom(objs[fronts[k][p]], objs[fronts[k][q]])
         /\ k > 1 =>
              \A p \in 1 .. Len(fronts[k]) : \E q \in 1 .. Len(fronts[k - 1]) :
                C28_Dom(objs[fronts[k - 1][q]], objs[fronts[k][p]])

\* two fronts, the second holding a pair that one member of the first
\* dominates and another does not
C28_Witness ==
  /\ pc = "fn_sorted" /\ engine = "functions" /\ Len(fronts) >= 2
  /\ \E p \in 1 .. Len(fronts[2]), q \in 1 .. Len(fronts[1]), u \in 1 .. Len(fronts[1]) :
       /\ C28_Dom(objs[fronts[1][q]], objs[fronts[2][p]])
       /\ ~C28_Dom(objs[fronts[1][u]], objs[fronts[2][p]])

====
